---- MODULE Spec2Model ----
(***************************************************************************)
(* A model of signsky: the shared-memory ring queue (src/src/ring.c), the  *)
(* key-slot hand-off between the keying worker and the data-plane workers  *)
(* (src/src/keying.c, src/src/utils.c, src/src/encrypt.c), the receive     *)
(* path of the decrypt worker (src/src/decrypt.c), the way of a packet     *)
(* through the clear, encrypt, crypto and decrypt workers, and the         *)
(* supervisor with the workers' lives (src/src/proc.c, src/src/signsky.c). *)
(*                                                                         *)
(* Unsigned C integers keep their width.  TLC's integers are 32-bit signed *)
(* Java ints, so a u_int32_t is a pair <<hi, lo>> of 16-bit limbs and a    *)
(* 64-bit size_t a 4-tuple of limbs, most significant first.               *)
(***************************************************************************)
EXTENDS Integers, Sequences, FiniteSets, TLC

VARIABLES
    ring,       \* struct signsky_ring (elm, mask, producer, consumer, data)
    ringst,     \* "raw" before signsky_ring_init, "ok" after, "fatal" on PRECOND
    elmArg,     \* the elm argument handed to signsky_ring_init
    rpc,        \* position of every ring user inside queue / dequeue
    rloc,       \* their locals: head, tail, next, ptr (queue), uptr (dequeue)
    ntag,       \* number of signsky_ring_queue calls made so far (item tags)
    queued,     \* items whose signsky_ring_queue returned 0, in return order
    returned,   \* items returned by signsky_ring_dequeue, in return order
    fullseen,   \* number of signsky_ring_queue calls that returned -1
    key,        \* io->tx and io->rx: struct signsky_key (spi, state, key[32])
    kpc,        \* keying worker: position inside keying_handle_request
    kreq,       \* keying worker: the request being handled and the slot in turn
    nreq,       \* number of keying requests received so far
    epc,        \* encrypt worker: position inside encrypt_install_pending
    estate,     \* encrypt worker: its static state (spi, salt, seqnr, cipher)
    dpc,        \* decrypt worker: position in its loop / signsky_key_install
    dloc,       \* decrypt worker: SA being installed and the install's caller
    dstate,     \* decrypt worker: its static state (slot_1, slot_2)
    ciphers,    \* per worker, the cipher contexts it calloc'ed so far, by index
    arwin,      \* io->arwin: the anti-replay window (last, bitmap)
    peer,       \* signsky->peer_ip, signsky->peer_port
    rxstat,     \* signsky->rx (spi, pkt, bytes)
    clear,      \* io->clear: the ring from the decrypt to the clear worker
    npkt,       \* number of packets the decrypt worker has dequeued so far
    died,       \* the workers that called fatal(), with the message
    accepted,   \* <<cipher context, packet number>> of every window update
    rxlast,     \* what decrypt_packet_process did with the last packet
    endian,     \* byte order of the build: "little" or "big"
    tun,        \* the datagram read from the tunnel device (n, data)
    flight,     \* the packet buffer followed through the workers, its stage
    pool,       \* pktpool: the ring of free packet buffers
    wq,         \* io->encrypt, io->crypto, io->decrypt: the other work queues
    held,       \* per worker, the packet it dequeued and is working on
    ntun,       \* number of reads from the tunnel device so far
    nnet,       \* number of datagrams received from the network so far
    txlast,     \* what encrypt_packet_process did with the last packet
    qres,       \* a call of signsky_ring_queue: its site, value, buffer
    roam,       \* decrypt worker: position in the peer address update
    snd,        \* crypto worker: position in crypto_send_packet, port read
    sentto,     \* the (ip, port) pairs that sendto() was called with
    together,   \* the (ip, port) pairs that belong together
    nroam,      \* number of accepted packets looked at for roaming
    nsend,      \* number of crypto_send_packet calls so far
    spc,        \* supervisor: position in signsky_proc_start / main / shutdown
    ssig,       \* supervisor: the local sig of signsky_last_signal
    wpc,        \* per worker, its position in its entry function
    wsig,       \* per worker, the local sig of signsky_last_signal
    sigrecv,    \* per process, its sig_recv cell
    proclist,   \* the supervisor's list of processes
    attached,   \* per process, the shared segments it has attached
    txpns,      \* encrypt worker: the packet numbers it put into headers
    txlog,      \* encrypt worker: what it handed to the crypto worker, per install
    kgot,       \* keying worker: length of the last datagram and what recvfrom returned
    wtest,      \* the window functions: header, window before, results
    dropped,    \* crypto worker: the datagrams its eager window check dropped
    inq         \* the datagrams between the crypto and the decrypt worker

ringvars == <<ring, ringst, elmArg, rpc, rloc, ntag, queued, returned, fullseen>>

keyvars == <<key, kpc, kreq, nreq, epc, estate, ciphers>>

rxvars == <<dpc, dloc, dstate, arwin, peer, rxstat, clear, npkt, accepted, rxlast>>

sysvars == <<key, kpc, kreq, nreq, epc, estate, ciphers, dpc, dloc, dstate,
             arwin, peer, rxstat, clear, npkt, died, accepted, rxlast>>

\* The variables of the data path and of the supervisor.
pathvars == <<pool, wq, held, ntun, nnet, txlast, qres>>

peervars == <<roam, snd, sentto, together, nroam, nsend>>

\* The variables that the data path leaves alone.
supvars == <<spc, ssig, wpc, wsig, sigrecv, proclist, attached>>

histvars == <<txpns, txlog, kgot, wtest, dropped, inq>>

sidevars == <<peervars, supvars, histvars>>

extvars == <<endian, tun, flight, pathvars, sidevars>>

vars == <<ring, ringst, elmArg, rpc, rloc, ntag, queued, returned, fullseen,
          key, kpc, kreq, nreq, epc, estate, ciphers, dpc, dloc, dstate,
          arwin, peer, rxstat, clear, npkt, died, accepted, rxlast, extvars>>

----------------------------------------------------------------------------
(* Fixed-width unsigned arithmetic.                                        *)

LimbBase == 2^16

LimbMax == LimbBase - 1

RECURSIVE BitAnd(_, _)
BitAnd(x, y) ==
    IF x = 0 \/ y = 0 THEN 0
    ELSE (x % 2) * (y % 2) + 2 * BitAnd(x \div 2, y \div 2)

U32Zero == <<0, 0>>

U32Max == <<LimbMax, LimbMax>>

U32OfNat(n) == <<(n \div LimbBase) % LimbBase, n % LimbBase>>

U32Add(a, b) ==
    LET lo == a[2] + b[2]
        hi == a[1] + b[1] + (lo \div LimbBase)
    IN  <<hi % LimbBase, lo % LimbBase>>

U32Sub(a, b) ==
    LET lo == a[2] - b[2]
        borrow == IF lo < 0 THEN 1 ELSE 0
        hi == a[1] - b[1] - borrow
    IN  <<(hi + LimbBase) % LimbBase, (lo + LimbBase) % LimbBase>>

U32And(a, b) == <<BitAnd(a[1], b[1]), BitAnd(a[2], b[2])>>

U32One == <<0, 1>>

\* Only used on values known to be below 2^31 (slot indexes, small counts).
U32ToNat(a) == a[1] * LimbBase + a[2]

SizeZero == <<0, 0, 0, 0>>

SizeOfU32(a) == <<0, 0, a[1], a[2]>>

SizeOfNat(n) == <<0, 0, (n \div LimbBase) % LimbBase, n % LimbBase>>

SizeAdd(x, y) ==
    LET s4 == x[4] + y[4]
        s3 == x[3] + y[3] + (s4 \div LimbBase)
        s2 == x[2] + y[2] + (s3 \div LimbBase)
        s1 == x[1] + y[1] + (s2 \div LimbBase)
    IN  <<s1 % LimbBase, s2 % LimbBase, s3 % LimbBase, s4 % LimbBase>>

\* u_int64_t values, four limbs like size_t.
U64Zero == <<0, 0, 0, 0>>

U64One == <<0, 0, 0, 1>>

U64OfNat(n) == <<0, 0, (n \div LimbBase) % LimbBase, n % LimbBase>>

U64Lt(a, b) ==
    \E i \in 1..4 : a[i] < b[i] /\ \A j \in 1..(i - 1) : a[j] = b[j]

U64Sub(a, b) ==
    LET d4 == a[4] - b[4]
        d3 == a[3] - b[3] - (IF d4 < 0 THEN 1 ELSE 0)
        d2 == a[2] - b[2] - (IF d3 < 0 THEN 1 ELSE 0)
        d1 == a[1] - b[1] - (IF d2 < 0 THEN 1 ELSE 0)
    IN  <<(d1 + LimbBase) % LimbBase, (d2 + LimbBase) % LimbBase,
          (d3 + LimbBase) % LimbBase, (d4 + LimbBase) % LimbBase>>

\* Only used on values known to be below 2^16 (window distances).
U64ToNat(a) == a[4]

\* pn & 0xffffffff
Low32(a) == <<a[3], a[4]>>

\* be32toh / be64toh: the big-endian bytes of the wire as a host value.
be32toh(b) == <<b[1] * 256 + b[2], b[3] * 256 + b[4]>>

be64toh(b) ==
    <<b[1] * 256 + b[2], b[3] * 256 + b[4], b[5] * 256 + b[6], b[7] * 256 + b[8]>>

\* The big-endian wire bytes of a 32-bit and of a 64-bit value.
Be32Bytes(a) == <<a[1] \div 256, a[1] % 256, a[2] \div 256, a[2] % 256>>

Be64Bytes(a) ==
    <<a[1] \div 256, a[1] % 256, a[2] \div 256, a[2] % 256,
      a[3] \div 256, a[3] % 256, a[4] \div 256, a[4] % 256>>

----------------------------------------------------------------------------
(* Bounds of the ring model.                                               *)

RingElmLog == 1

MaxItems == 3

RingElm == 2^RingElmLog

NProducers == 2

NConsumers == 2

DataLen == 4096

Producers == 1..NProducers

Consumers == (NProducers + 1)..(NProducers + NConsumers)

RingUsers == Producers \cup Consumers

\* A ring that has seen k balanced queue/dequeue pairs has all four cursors
\* at k mod 2^32: fresh (k = 0) and one step before the cursors wrap.
RingStarts == {U32Zero, U32Max}

\* Capacities tried against signsky_ring_init.
ElmInputs == (0..70) \cup {1024, DataLen - 1, DataLen, DataLen + 1, 2 * DataLen}

----------------------------------------------------------------------------
(* src/src/ring.c                                                          *)

\* ret is what the last call returned: "full" / "ok" (queue), "null" / "item"
\* (dequeue), "none" while a call is in progress or before the first one.
NoLocals ==
    [head |-> U32Zero, tail |-> U32Zero, next |-> U32Zero, ptr |-> 0, ret |-> "none"]

RawRing ==
    [elm |-> 0, mask |-> U32Zero,
     producer |-> [head |-> U32Zero, tail |-> U32Zero],
     consumer |-> [head |-> U32Zero, tail |-> U32Zero],
     data |-> <<>>]

\* PRECOND(elm > 0 && (elm & (elm - 1)) == 0)
RingInitPrecond(elm) == elm > 0 /\ BitAnd(elm, elm - 1) = 0

\* memset(ring, 0, sizeof(*ring)); ring->elm = elm; ring->mask = elm - 1;
RingInitValue(elm) ==
    [RawRing EXCEPT !.elm = elm, !.mask = U32OfNat(elm - 1)]

\* ring->data[slot], zero from the memset until first written.
RingData(r, slot) == IF slot \in DOMAIN r.data THEN r.data[slot] ELSE 0

RingDataWrite(r, slot, v) ==
    [r EXCEPT !.data = [s \in (DOMAIN r.data) \cup {slot} |->
                            IF s = slot THEN v ELSE r.data[s]]]

\* return (tail - head): a 32-bit difference widened to size_t.
signsky_ring_pending(r) ==
    SizeOfU32(U32Sub(r.producer.tail, r.consumer.head))

\* return (ring->elm + (tail - head)): size_t plus a 32-bit difference.
signsky_ring_available(r) ==
    SizeAdd(SizeOfNat(r.elm), SizeOfU32(U32Sub(r.consumer.tail, r.producer.head)))

\* if ((ring->elm + (tail - head)) == 0) return (-1);
RingFullTest(elm, head, tail) ==
    SizeAdd(SizeOfNat(elm), SizeOfU32(U32Sub(tail, head))) = SizeZero

\* if ((tail - head) == 0) return (NULL);
RingEmptyTest(head, tail) == U32Sub(tail, head) = U32Zero

\* slot = head & ring->mask
RingSlot(r, head) == U32ToNat(U32And(head, r.mask))

\* signsky_ring_queue(ring, ptr) run to its return with no other producer
\* in between: [ret, ring].
RingQueueCall(r, ptr) ==
    LET head == r.producer.head
        tail == r.consumer.tail
        next == U32Add(head, U32One)
    IN  IF RingFullTest(r.elm, head, tail)
          THEN [ret |-> -1, ring |-> r]
          ELSE [ret |-> 0,
                ring |-> [RingDataWrite(r, RingSlot(r, head), ptr)
                             EXCEPT !.producer = [head |-> next, tail |-> next]]]

\* signsky_ring_dequeue(ring) run to its return with no other consumer in
\* between: [ptr, ring], ptr = NULL when the ring is empty.
RingDequeueCall(r) ==
    LET head == r.consumer.head
        tail == r.producer.tail
        next == U32Add(head, U32One)
    IN  IF RingEmptyTest(head, tail)
          THEN [ptr |-> 0, ring |-> r]
          ELSE [ptr |-> RingData(r, RingSlot(r, head)),
                ring |-> [r EXCEPT !.consumer = [head |-> next, tail |-> next]]]

signsky_ring_init ==
    /\ ringst = "raw"
    /\ IF RingInitPrecond(elmArg)
         THEN /\ ring' = RingInitValue(elmArg)
              /\ ringst' = "ok"
         ELSE /\ ringst' = "fatal"
              /\ UNCHANGED ring
    /\ UNCHANGED <<elmArg, rpc, rloc, ntag, queued, returned, fullseen>>
    /\ UNCHANGED <<sysvars, extvars>>

\* A producer enters signsky_ring_queue(ring, ptr) with a fresh item.
QueueCall(p) ==
    /\ rpc[p] = "idle"
    /\ ntag < MaxItems
    /\ ntag' = ntag + 1
    /\ rloc' = [rloc EXCEPT ![p] = [NoLocals EXCEPT !.ptr = ntag + 1]]
    /\ rpc' = [rpc EXCEPT ![p] = "q_head"]
    /\ UNCHANGED <<ring, ringst, elmArg, queued, returned, fullseen>>
    /\ UNCHANGED <<sysvars, extvars>>

\* head = signsky_atomic_read(&ring->producer.head);
QueueReadHead(p) ==
    /\ rpc[p] = "q_head"
    /\ rloc' = [rloc EXCEPT ![p].head = ring.producer.head]
    /\ rpc' = [rpc EXCEPT ![p] = "q_tail"]
    /\ UNCHANGED <<ring, ringst, elmArg, ntag, queued, returned, fullseen>>
    /\ UNCHANGED <<sysvars, extvars>>

\* tail = atomic_read(&ring->consumer.tail); the fullness test; next = head + 1
QueueReadTail(p) ==
    /\ rpc[p] = "q_tail"
    /\ LET tail == ring.consumer.tail
       IN  IF RingFullTest(ring.elm, rloc[p].head, tail)
             THEN /\ rloc' = [rloc EXCEPT ![p].tail = tail, ![p].ret = "full"]
                  /\ rpc' = [rpc EXCEPT ![p] = "idle"]
                  /\ fullseen' = fullseen + 1
             ELSE /\ rloc' = [rloc EXCEPT ![p].tail = tail,
                                          ![p].next = U32Add(rloc[p].head, U32One)]
                  /\ rpc' = [rpc EXCEPT ![p] = "q_cas"]
                  /\ UNCHANGED fullseen
    /\ UNCHANGED <<ring, ringst, elmArg, ntag, queued, returned>>
    /\ UNCHANGED <<sysvars, extvars>>

\* if (!signsky_atomic_cas(&ring->producer.head, &head, &next)) goto queue_again;
QueueCas(p) ==
    /\ rpc[p] = "q_cas"
    /\ IF ring.producer.head = rloc[p].head
         THEN /\ ring' = [ring EXCEPT !.producer.head = rloc[p].next]
              /\ rpc' = [rpc EXCEPT ![p] = "q_write"]
         ELSE /\ rpc' = [rpc EXCEPT ![p] = "q_head"]
              /\ UNCHANGED ring
    /\ UNCHANGED <<ringst, elmArg, rloc, ntag, queued, returned, fullseen>>
    /\ UNCHANGED <<sysvars, extvars>>

\* slot = head & ring->mask; signsky_atomic_write(&ring->data[slot], ptr);
QueueWrite(p) ==
    /\ rpc[p] = "q_write"
    /\ ring' = RingDataWrite(ring, RingSlot(ring, rloc[p].head), rloc[p].ptr)
    /\ rpc' = [rpc EXCEPT ![p] = "q_pub"]
    /\ UNCHANGED <<ringst, elmArg, rloc, ntag, queued, returned, fullseen>>
    /\ UNCHANGED <<sysvars, extvars>>

\* A publish that waits for the tail cursor to reach the claimant's own next.
QueuePublishWaitsNext(p) ==
    /\ rpc[p] = "q_pub"
    /\ ring.producer.tail = rloc[p].next
    /\ ring' = [ring EXCEPT !.producer.tail = rloc[p].next]
    /\ queued' = Append(queued, rloc[p].ptr)
    /\ rloc' = [rloc EXCEPT ![p].ret = "ok"]
    /\ rpc' = [rpc EXCEPT ![p] = "idle"]
    /\ UNCHANGED <<ringst, elmArg, ntag, returned, fullseen>>
    /\ UNCHANGED <<sysvars, extvars>>

\* while (!cas_simple(&ring->producer.tail, head, next)) ring_cpu_pause();
\* return (0).  A failed CAS changes nothing and is tried again.
QueuePublish(p) ==
    /\ rpc[p] = "q_pub"
    /\ ring.producer.tail = rloc[p].head
    /\ ring' = [ring EXCEPT !.producer.tail = rloc[p].next]
    /\ queued' = Append(queued, rloc[p].ptr)
    /\ rloc' = [rloc EXCEPT ![p].ret = "ok"]
    /\ rpc' = [rpc EXCEPT ![p] = "idle"]
    /\ UNCHANGED <<ringst, elmArg, ntag, returned, fullseen>>
    /\ UNCHANGED <<sysvars, extvars>>

\* A consumer enters signsky_ring_dequeue(ring).
DequeueCall(c) ==
    /\ rpc[c] = "idle"
    /\ rloc' = [rloc EXCEPT ![c] = NoLocals]
    /\ rpc' = [rpc EXCEPT ![c] = "d_head"]
    /\ UNCHANGED <<ring, ringst, elmArg, ntag, queued, returned, fullseen>>
    /\ UNCHANGED <<sysvars, extvars>>

\* head = signsky_atomic_read(&ring->consumer.head);
DequeueReadHead(c) ==
    /\ rpc[c] = "d_head"
    /\ rloc' = [rloc EXCEPT ![c].head = ring.consumer.head]
    /\ rpc' = [rpc EXCEPT ![c] = "d_tail"]
    /\ UNCHANGED <<ring, ringst, elmArg, ntag, queued, returned, fullseen>>
    /\ UNCHANGED <<sysvars, extvars>>

\* tail = atomic_read(&ring->producer.tail); the empty test; next = head + 1
DequeueReadTail(c) ==
    /\ rpc[c] = "d_tail"
    /\ LET tail == ring.producer.tail
       IN  IF RingEmptyTest(rloc[c].head, tail)
             THEN /\ rloc' = [rloc EXCEPT ![c].tail = tail, ![c].ret = "null"]
                  /\ rpc' = [rpc EXCEPT ![c] = "idle"]
             ELSE /\ rloc' = [rloc EXCEPT ![c].tail = tail,
                                          ![c].next = U32Add(rloc[c].head, U32One)]
                  /\ rpc' = [rpc EXCEPT ![c] = "d_cas"]
    /\ UNCHANGED <<ring, ringst, elmArg, ntag, queued, returned, fullseen>>
    /\ UNCHANGED <<sysvars, extvars>>

\* if (!signsky_atomic_cas(&ring->consumer.head, &head, &next)) goto dequeue_again;
DequeueCas(c) ==
    /\ rpc[c] = "d_cas"
    /\ IF ring.consumer.head = rloc[c].head
         THEN /\ ring' = [ring EXCEPT !.consumer.head = rloc[c].next]
              /\ rpc' = [rpc EXCEPT ![c] = "d_read"]
         ELSE /\ rpc' = [rpc EXCEPT ![c] = "d_head"]
              /\ UNCHANGED ring
    /\ UNCHANGED <<ringst, elmArg, rloc, ntag, queued, returned, fullseen>>
    /\ UNCHANGED <<sysvars, extvars>>

\* slot = head & ring->mask; uptr = signsky_atomic_read(&ring->data[slot]);
DequeueRead(c) ==
    /\ rpc[c] = "d_read"
    /\ rloc' = [rloc EXCEPT ![c].ptr = RingData(ring, RingSlot(ring, rloc[c].head))]
    /\ rpc' = [rpc EXCEPT ![c] = "d_pub"]
    /\ UNCHANGED <<ring, ringst, elmArg, ntag, queued, returned, fullseen>>
    /\ UNCHANGED <<sysvars, extvars>>

\* while (!cas_simple(&ring->consumer.tail, head, next)) ring_cpu_pause();
\* return ((void *)uptr).
DequeuePublish(c) ==
    /\ rpc[c] = "d_pub"
    /\ ring.consumer.tail = rloc[c].head
    /\ ring' = [ring EXCEPT !.consumer.tail = rloc[c].next]
    /\ returned' = Append(returned, rloc[c].ptr)
    /\ rloc' = [rloc EXCEPT ![c].ret = IF rloc[c].ptr = 0 THEN "null" ELSE "item"]
    /\ rpc' = [rpc EXCEPT ![c] = "idle"]
    /\ UNCHANGED <<ringst, elmArg, ntag, queued, fullseen>>
    /\ UNCHANGED <<sysvars, extvars>>

----------------------------------------------------------------------------
(* Bounds and inputs of the key hand-off and receive-path model.           *)

MaxRequests == 2

MaxPkts == 2

NSecrets == 2

SIGNSKY_KEY_LENGTH == 32

SIGNSKY_KEY_EMPTY == 0

SIGNSKY_KEY_GENERATING == 1

SIGNSKY_KEY_PENDING == 2

SIGNSKY_KEY_INSTALLING == 3

NULL == 0

ZeroKey == [i \in 1..SIGNSKY_KEY_LENGTH |-> 0]

\* The shared secrets a keying request may carry: 32 equal non-zero bytes.
Secret(b) == [i \in 1..SIGNSKY_KEY_LENGTH |-> b]

Secrets == {Secret(b) : b \in 1..NSecrets}

SpiA == <<57005, 48879>>

SpiB == <<0, 2>>

\* The (tx_spi, rx_spi) pairs of the requests offered; 0 is the value that
\* keying_install refuses.
SpiPairs == {<<SpiA, SpiA>>, <<SpiB, SpiB>>, <<SpiA, U32Zero>>}

\* struct request of keying.c as read from the socket.
Requests ==
    {[tx_spi |-> sp[1], rx_spi |-> sp[2], ss |-> k] : sp \in SpiPairs, k \in Secrets}

Workers == {"keying", "encrypt", "decrypt", "clear", "crypto"}

----------------------------------------------------------------------------
(* Shared helpers: atomics, signsky_mem_zero, the cipher contexts.         *)

\* signsky_atomic_cas_simple(x, e, d): the swap happens iff *x == e.
signsky_atomic_cas_simple(x, e, d) ==
    [ok |-> x = e, val |-> IF x = e THEN d ELSE x]

\* while (len-- > 0) *(p)++ = 0x00;
signsky_mem_zero(bytes) == [i \in DOMAIN bytes |-> 0]

\* A signsky_cipher_setup that leaves the key bytes in the slot.
CipherSetupKeepsKey(k) ==
    [ctx |-> [key |-> k.key, live |-> TRUE, frees |-> 0], slot |-> k]

\* signsky_cipher_setup(key): a calloc'ed context holding the expanded key;
\* the key bytes of the shared slot are wiped before it returns.
signsky_cipher_setup(k) ==
    [ctx |-> [key |-> k.key, live |-> TRUE, frees |-> 0],
     slot |-> [k EXCEPT !.key = signsky_mem_zero(k.key)]]

\* signsky_cipher_cleanup(arg): releases the GCM state, wipes the AES key and
\* frees the context.
signsky_cipher_cleanup(cs, id) ==
    [cs EXCEPT ![id] = [key |-> signsky_mem_zero(cs[id].key), live |-> FALSE,
                        frees |-> cs[id].frees + 1]]

\* fatal(): the calling worker logs and exits; it takes no further step.
Fatal(w, msg) == died' = [died EXCEPT ![w] = msg]

Alive(w) == died[w] = "none"

----------------------------------------------------------------------------
(* src/src/keying.c: keying_handle_request and keying_install.             *)

NoRequest == [tx_spi |-> U32Zero, rx_spi |-> U32Zero, ss |-> ZeroKey, slot |-> "tx"]

KeyingSpi == IF kreq.slot = "tx" THEN kreq.tx_spi ELSE kreq.rx_spi

\* A keying_install that does not wait for the slot to be empty.
KeyingNeverWaits(st) == TRUE

\* while (signsky_atomic_read(&state->state) != SIGNSKY_KEY_EMPTY) pause;
KeyingWaitOver(st) == st = SIGNSKY_KEY_EMPTY

\* recvfrom() hands over a request of sizeof(struct request) bytes.
KeyingRecv ==
    /\ Alive("keying") /\ kpc = "poll"
    /\ nreq < MaxRequests
    /\ \E req \in Requests :
            kreq' = [tx_spi |-> req.tx_spi, rx_spi |-> req.rx_spi,
                     ss |-> req.ss, slot |-> "tx"]
    /\ nreq' = nreq + 1
    /\ kpc' = "enter"
    /\ UNCHANGED <<key, epc, estate, ciphers, died>>
    /\ UNCHANGED rxvars
    /\ UNCHANGED <<ringvars, extvars>>

\* keying_install(state, spi, key, len): PRECOND(spi > 0).
KeyingInstallEnter ==
    /\ Alive("keying") /\ kpc = "enter"
    /\ IF KeyingSpi # U32Zero
         THEN kpc' = "wait" /\ UNCHANGED died
         ELSE Fatal("keying", "precondition failed") /\ UNCHANGED kpc
    /\ UNCHANGED <<key, kreq, nreq, epc, estate, ciphers>>
    /\ UNCHANGED rxvars
    /\ UNCHANGED <<ringvars, extvars>>

\* The spin on the slot state ends once it reads SIGNSKY_KEY_EMPTY.
KeyingWait ==
    /\ Alive("keying") /\ kpc = "wait"
    /\ KeyingWaitOver(key[kreq.slot].state)
    /\ kpc' = "gen"
    /\ UNCHANGED <<key, kreq, nreq, epc, estate, ciphers, died>>
    /\ UNCHANGED rxvars
    /\ UNCHANGED <<ringvars, extvars>>

\* cas_simple(&state->state, SIGNSKY_KEY_EMPTY, SIGNSKY_KEY_GENERATING)
KeyingCasGenerating ==
    /\ Alive("keying") /\ kpc = "gen"
    /\ LET r == signsky_atomic_cas_simple(key[kreq.slot].state,
                    SIGNSKY_KEY_EMPTY, SIGNSKY_KEY_GENERATING)
       IN  IF r.ok
             THEN /\ key' = [key EXCEPT ![kreq.slot].state = r.val]
                  /\ kpc' = "copy"
                  /\ UNCHANGED died
             ELSE /\ Fatal("keying", "failed to swap key state to generating")
                  /\ UNCHANGED <<key, kpc>>
    /\ UNCHANGED <<kreq, nreq, epc, estate, ciphers>>
    /\ UNCHANGED rxvars
    /\ UNCHANGED <<ringvars, extvars>>

\* memcpy(state->key, key, len); signsky_atomic_write(&state->spi, spi);
KeyingCopy ==
    /\ Alive("keying") /\ kpc = "copy"
    /\ key' = [key EXCEPT ![kreq.slot].key = kreq.ss,
                          ![kreq.slot].spi = KeyingSpi]
    /\ kpc' = "pend"
    /\ UNCHANGED <<kreq, nreq, epc, estate, ciphers, died>>
    /\ UNCHANGED rxvars
    /\ UNCHANGED <<ringvars, extvars>>

\* cas_simple(&state->state, SIGNSKY_KEY_GENERATING, SIGNSKY_KEY_PENDING);
\* then the RX slot gets its turn, or the request is done.
KeyingCasPending ==
    /\ Alive("keying") /\ kpc = "pend"
    /\ LET r == signsky_atomic_cas_simple(key[kreq.slot].state,
                    SIGNSKY_KEY_GENERATING, SIGNSKY_KEY_PENDING)
       IN  IF r.ok
             THEN /\ key' = [key EXCEPT ![kreq.slot].state = r.val]
                  /\ IF kreq.slot = "tx"
                       THEN kreq' = [kreq EXCEPT !.slot = "rx"] /\ kpc' = "enter"
                       ELSE kreq' = NoRequest /\ kpc' = "poll"
                  /\ UNCHANGED died
             ELSE /\ Fatal("keying", "failed to swap key state to pending")
                  /\ UNCHANGED <<key, kpc, kreq>>
    /\ UNCHANGED <<nreq, epc, estate, ciphers>>
    /\ UNCHANGED rxvars
    /\ UNCHANGED <<ringvars, extvars>>

----------------------------------------------------------------------------
(* src/src/encrypt.c: encrypt_install_pending.                             *)

NoSA == [spi |-> U32Zero, salt |-> U32Zero, seqnr |-> U64Zero, cipher |-> NULL]

\* if (signsky_atomic_read(&io->tx->state) != SIGNSKY_KEY_PENDING) return;
InstallSeesPending(st) == st = SIGNSKY_KEY_PENDING

EncryptInstallRead ==
    /\ Alive("encrypt") /\ epc = "loop"
    /\ InstallSeesPending(key.tx.state)
    /\ epc' = "cas"
    /\ UNCHANGED <<key, kpc, kreq, nreq, estate, ciphers, died>>
    /\ UNCHANGED rxvars
    /\ UNCHANGED <<ringvars, extvars>>

\* cas_simple(&io->tx->state, SIGNSKY_KEY_PENDING, SIGNSKY_KEY_INSTALLING)
EncryptCasInstalling ==
    /\ Alive("encrypt") /\ epc = "cas"
    /\ LET r == signsky_atomic_cas_simple(key.tx.state,
                    SIGNSKY_KEY_PENDING, SIGNSKY_KEY_INSTALLING)
       IN  IF r.ok
             THEN /\ key' = [key EXCEPT !.tx.state = r.val]
                  /\ epc' = "body"
                  /\ UNCHANGED died
             ELSE /\ Fatal("encrypt", "failed to swap key state to installing")
                  /\ UNCHANGED <<key, epc>>
    /\ UNCHANGED <<kpc, kreq, nreq, estate, ciphers>>
    /\ UNCHANGED rxvars
    /\ UNCHANGED <<ringvars, extvars>>

\* An encrypt_install_pending that leaves state.seqnr as it is.
EncryptInstallKeepsSeqnr ==
    /\ Alive("encrypt") /\ epc = "body"
    /\ LET cs == IF estate.cipher # NULL
                   THEN signsky_cipher_cleanup(ciphers.encrypt, estate.cipher)
                   ELSE ciphers.encrypt
           su == signsky_cipher_setup(key.tx)
       IN  /\ ciphers' = [ciphers EXCEPT !.encrypt = Append(cs, su.ctx)]
           /\ key' = [key EXCEPT !.tx = su.slot]
           /\ estate' = [estate EXCEPT !.cipher = Len(cs) + 1,
                                       !.spi = su.slot.spi]
    /\ epc' = "done"
    /\ UNCHANGED <<kpc, kreq, nreq, died>>
    /\ UNCHANGED rxvars
    /\ UNCHANGED <<ringvars, extvars>>

\* if (state.cipher != NULL) signsky_cipher_cleanup(state.cipher);
\* state.cipher = signsky_cipher_setup(io->tx); state.seqnr = 1;
\* state.spi = signsky_atomic_read(&io->tx->spi);
EncryptInstallBody ==
    /\ Alive("encrypt") /\ epc = "body"
    /\ LET cs == IF estate.cipher # NULL
                   THEN signsky_cipher_cleanup(ciphers.encrypt, estate.cipher)
                   ELSE ciphers.encrypt
           su == signsky_cipher_setup(key.tx)
       IN  /\ ciphers' = [ciphers EXCEPT !.encrypt = Append(cs, su.ctx)]
           /\ key' = [key EXCEPT !.tx = su.slot]
           /\ estate' = [estate EXCEPT !.cipher = Len(cs) + 1,
                                       !.seqnr = U64One,
                                       !.spi = su.slot.spi]
    /\ epc' = "done"
    /\ UNCHANGED <<kpc, kreq, nreq, died>>
    /\ UNCHANGED rxvars
    /\ UNCHANGED <<ringvars, extvars>>

\* cas_simple(&io->tx->state, SIGNSKY_KEY_INSTALLING, SIGNSKY_KEY_EMPTY)
EncryptCasEmpty ==
    /\ Alive("encrypt") /\ epc = "done"
    /\ LET r == signsky_atomic_cas_simple(key.tx.state,
                    SIGNSKY_KEY_INSTALLING, SIGNSKY_KEY_EMPTY)
       IN  IF r.ok
             THEN /\ key' = [key EXCEPT !.tx.state = r.val]
                  /\ epc' = "loop"
                  /\ UNCHANGED died
             ELSE /\ Fatal("encrypt", "failed to swap key state to empty")
                  /\ UNCHANGED <<key, epc>>
    /\ UNCHANGED <<kpc, kreq, nreq, estate, ciphers>>
    /\ UNCHANGED rxvars
    /\ UNCHANGED <<ringvars, extvars>>

----------------------------------------------------------------------------
(* Packets as the crypto worker receives them from the network.  The AEAD  *)
(* is an ideal sealed box: a packet verifies under a cipher context iff    *)
(* its ciphertext is untouched and it was sealed with that context's key,  *)
(* the nonce and the additional data that the receiver presents.           *)

SIGNSKY_PROC_CLEAR == 1

SIGNSKY_PROC_DECRYPT == 4

CIPHER_AES_GCM_TAG_SIZE == 16

SIGNSKY_ARWIN_SIZE == 64

IPPROTO_IP == 0

IPPROTO_IPV4 == 4

ClearElm == 1024

\* sizeof(struct signsky_ipsec_hdr): spi, seq, pn, packed.
HdrLen == 4 + 4 + 8

\* sizeof(struct signsky_ipsec_tail): pad, next.
TailLen == 1 + 1

\* Inner datagram length of the packets offered to the decrypt worker.
PlainLen == 12

\* Packet numbers offered: reserved 0, the first two, and one that lies a
\* whole window beyond them.
PnValues == {0, 1, 2, SIGNSKY_ARWIN_SIZE + 2}

\* A datagram built as section 6 of the spec lays it out, sealed under key k
\* with salt 0 for (spi, pn), carrying trailer (pad, next).
SealedPacket(spi, k, pn, seq, pad, next, len, addr) ==
    [length |-> len, target |-> SIGNSKY_PROC_DECRYPT, addr |-> addr,
     spi |-> Be32Bytes(spi), seq |-> Be32Bytes(seq), pn |-> Be64Bytes(U64OfNat(pn)),
     seal |-> [key |-> k, nonce |-> <<U32Zero, U64OfNat(pn)>>,
               aad |-> <<spi, U64OfNat(pn)>>],
     intact |-> TRUE, pad |-> pad, next |-> next]

FullLen == HdrLen + PlainLen + TailLen + CIPHER_AES_GCM_TAG_SIZE

\* Well-formed packets of the holder of a key, with the trailer that
\* decrypt_with_slot lets through: SPI A under the first secret, SPI B under
\* the second.  They are packets of another key when the keying requests
\* pair the SPIs and the secrets the other way round.
GoodPackets ==
    {SealedPacket(SpiA, Secret(1), pn, U32OfNat(pn), 0, IPPROTO_IP, FullLen, <<1, 1>>) :
        pn \in PnValues}
    \cup {SealedPacket(SpiB, Secret(2), pn, U32OfNat(pn), 0, IPPROTO_IP, FullLen, <<1, 1>>) :
        pn \in {1, 2}}

\* The same with the trailer that encrypt_packet_process writes, and one
\* from another source address.
PeerPackets ==
    {SealedPacket(SpiA, Secret(1), 1, U32OfNat(1), 0, IPPROTO_IPV4, FullLen, <<1, 1>>),
     SealedPacket(SpiB, Secret(2), 1, U32OfNat(1), 0, IPPROTO_IPV4, FullLen, <<1, 1>>),
     SealedPacket(SpiA, Secret(1), 2, U32OfNat(2), 0, IPPROTO_IP, FullLen, <<2, 1>>)}

\* Malformed ones: truncated, sequence field not the low half of the packet
\* number, non-zero pad length.
BadPackets ==
    {SealedPacket(SpiA, Secret(1), 1, U32OfNat(1), 0, IPPROTO_IP,
                  HdrLen + TailLen + CIPHER_AES_GCM_TAG_SIZE - 1, <<1, 1>>),
     SealedPacket(SpiA, Secret(1), 1, U32OfNat(2), 0, IPPROTO_IP, FullLen, <<1, 1>>),
     SealedPacket(SpiA, Secret(1), 2, U32OfNat(2), 1, IPPROTO_IP, FullLen, <<1, 1>>)}

Packets == GoodPackets \cup PeerPackets \cup BadPackets

NoPacket == [length |-> 0]

----------------------------------------------------------------------------
(* src/src/utils.c: signsky_key_install, as the decrypt worker runs it.    *)

NoDloc == [sa |-> "slot_1", caller |-> "loop"]

\* decrypt_keys_install: slot_1 while it has no cipher, slot_2 afterwards.
\* A decrypt_keys_install that puts every key into slot_2.
InstallAlwaysPending(st) == "slot_2"

InstallTarget(st) == IF st.slot_1.cipher = NULL THEN "slot_1" ELSE "slot_2"

\* A decrypt worker that looks for a pending key only when a datagram has
\* arrived.
DecryptInstallOnlyOnPacket == FALSE /\ UNCHANGED vars

\* decrypt_keys_install() at the top of the worker's loop; a slot that is not
\* SIGNSKY_KEY_PENDING makes signsky_key_install return -1 at once.
DecryptLoopInstall ==
    /\ Alive("decrypt") /\ dpc = "loop"
    /\ InstallSeesPending(key.rx.state)
    /\ dloc' = [dloc EXCEPT !.sa = InstallTarget(dstate), !.caller = "loop"]
    /\ dpc' = "cas"
    /\ UNCHANGED <<dstate, arwin, peer, rxstat, clear, npkt, accepted, rxlast, died>>
    /\ UNCHANGED keyvars
    /\ UNCHANGED <<ringvars, extvars>>

\* pkt = signsky_ring_dequeue(io->decrypt) returns a datagram of the network;
\* its bytes are first looked at in decrypt_packet_process, after the install
\* of pending keys, and are drawn there.
DecryptDequeue ==
    /\ Alive("decrypt") /\ dpc = "loop"
    /\ npkt < MaxPkts
    /\ npkt' = npkt + 1
    /\ dpc' = "pinst"
    /\ UNCHANGED <<dloc, dstate, arwin, peer, rxstat, clear, accepted, rxlast, died>>
    /\ UNCHANGED keyvars
    /\ UNCHANGED <<ringvars, extvars>>

\* decrypt_keys_install() at the top of decrypt_packet_process.
DecryptPacketInstall ==
    /\ Alive("decrypt") /\ dpc = "pinst"
    /\ IF InstallSeesPending(key.rx.state)
         THEN /\ dloc' = [dloc EXCEPT !.sa = InstallTarget(dstate),
                                      !.caller = "process"]
              /\ dpc' = "cas"
         ELSE /\ dpc' = "process"
              /\ UNCHANGED dloc
    /\ UNCHANGED <<dstate, arwin, peer, rxstat, clear, npkt, accepted, rxlast, died>>
    /\ UNCHANGED keyvars
    /\ UNCHANGED <<ringvars, extvars>>

\* cas_simple(&key->state, SIGNSKY_KEY_PENDING, SIGNSKY_KEY_INSTALLING)
DecryptCasInstalling ==
    /\ Alive("decrypt") /\ dpc = "cas"
    /\ LET r == signsky_atomic_cas_simple(key.rx.state,
                    SIGNSKY_KEY_PENDING, SIGNSKY_KEY_INSTALLING)
       IN  IF r.ok
             THEN /\ key' = [key EXCEPT !.rx.state = r.val]
                  /\ dpc' = "body"
                  /\ UNCHANGED died
             ELSE /\ Fatal("decrypt", "failed to swap key state to installing")
                  /\ UNCHANGED <<key, dpc>>
    /\ UNCHANGED <<kpc, kreq, nreq, epc, estate, ciphers>>
    /\ UNCHANGED <<dloc, dstate, arwin, peer, rxstat, clear, npkt, accepted, rxlast>>
    /\ UNCHANGED <<ringvars, extvars>>

\* A signsky_key_install that leaves the SPI of the SA as it was.
KeyInstallStaleSpi(k, sa, cs) ==
    LET cs1 == IF sa.cipher # NULL THEN signsky_cipher_cleanup(cs, sa.cipher) ELSE cs
        su == signsky_cipher_setup(k)
        k2 == [su.slot EXCEPT !.key = signsky_mem_zero(su.slot.key)]
    IN  [key |-> k2,
         ciphers |-> Append(cs1, su.ctx),
         sa |-> [sa EXCEPT !.cipher = Len(cs1) + 1, !.seqnr = U64One]]

\* A signsky_key_install that forgets the context the SA pointed to.
KeyInstallLeaksCipher(k, sa, cs) ==
    LET su == signsky_cipher_setup(k)
        k2 == [su.slot EXCEPT !.key = signsky_mem_zero(su.slot.key)]
    IN  [key |-> k2,
         ciphers |-> Append(cs, su.ctx),
         sa |-> [sa EXCEPT !.cipher = Len(cs) + 1, !.seqnr = U64One, !.spi = k2.spi]]

\* if (sa->cipher != NULL) signsky_cipher_cleanup(sa->cipher);
\* sa->cipher = signsky_cipher_setup(key); signsky_mem_zero(key->key, ...);
\* sa->seqnr = 1; sa->spi = signsky_atomic_read(&key->spi);
KeyInstallBody(k, sa, cs) ==
    LET cs1 == IF sa.cipher # NULL THEN signsky_cipher_cleanup(cs, sa.cipher) ELSE cs
        su == signsky_cipher_setup(k)
        k2 == [su.slot EXCEPT !.key = signsky_mem_zero(su.slot.key)]
    IN  [key |-> k2,
         ciphers |-> Append(cs1, su.ctx),
         sa |-> [sa EXCEPT !.cipher = Len(cs1) + 1, !.seqnr = U64One, !.spi = k2.spi]]

DecryptInstallBody ==
    /\ Alive("decrypt") /\ dpc = "body"
    /\ LET r == KeyInstallBody(key.rx, dstate[dloc.sa], ciphers.decrypt)
       IN  /\ key' = [key EXCEPT !.rx = r.key]
           /\ ciphers' = [ciphers EXCEPT !.decrypt = r.ciphers]
           /\ dstate' = [dstate EXCEPT ![dloc.sa] = r.sa]
    /\ dpc' = "done"
    /\ UNCHANGED <<kpc, kreq, nreq, epc, estate, died>>
    /\ UNCHANGED <<dloc, arwin, peer, rxstat, clear, npkt, accepted, rxlast>>
    /\ UNCHANGED <<ringvars, extvars>>

\* A decrypt_keys_install that stores signsky->rx.spi for either SA.
DecryptCasEmptyStoresSpi ==
    /\ Alive("decrypt") /\ dpc = "done"
    /\ LET r == signsky_atomic_cas_simple(key.rx.state,
                    SIGNSKY_KEY_INSTALLING, SIGNSKY_KEY_EMPTY)
       IN  IF r.ok
             THEN /\ key' = [key EXCEPT !.rx.state = r.val]
                  /\ rxstat' = [rxstat EXCEPT !.spi = dstate[dloc.sa].spi]
                  /\ dpc' = IF dloc.caller = "loop" THEN "loop" ELSE "process"
                  /\ UNCHANGED died
             ELSE /\ Fatal("decrypt", "failed to swap key state to empty")
                  /\ UNCHANGED <<key, rxstat, dpc>>
    /\ UNCHANGED <<kpc, kreq, nreq, epc, estate, ciphers>>
    /\ UNCHANGED <<dloc, dstate, arwin, peer, clear, npkt, accepted, rxlast>>
    /\ UNCHANGED <<ringvars, extvars>>

\* cas_simple(&key->state, SIGNSKY_KEY_INSTALLING, SIGNSKY_KEY_EMPTY); back in
\* decrypt_keys_install an install into slot_1 stores signsky->rx.spi.
DecryptCasEmpty ==
    /\ Alive("decrypt") /\ dpc = "done"
    /\ LET r == signsky_atomic_cas_simple(key.rx.state,
                    SIGNSKY_KEY_INSTALLING, SIGNSKY_KEY_EMPTY)
       IN  IF r.ok
             THEN /\ key' = [key EXCEPT !.rx.state = r.val]
                  /\ rxstat' = IF dloc.sa = "slot_1"
                                 THEN [rxstat EXCEPT !.spi = dstate.slot_1.spi]
                                 ELSE rxstat
                  /\ dpc' = IF dloc.caller = "loop" THEN "loop" ELSE "process"
                  /\ UNCHANGED died
             ELSE /\ Fatal("decrypt", "failed to swap key state to empty")
                  /\ UNCHANGED <<key, rxstat, dpc>>
    /\ UNCHANGED <<kpc, kreq, nreq, epc, estate, ciphers>>
    /\ UNCHANGED <<dloc, dstate, arwin, peer, clear, npkt, accepted, rxlast>>
    /\ UNCHANGED <<ringvars, extvars>>

----------------------------------------------------------------------------
(* src/src/decrypt.c: the anti-replay window and decrypt_with_slot.        *)

\* signsky_alloc_shared hands out zero-filled memory.
NoArwin == [last |-> U64Zero, bitmap |-> {}]

\* The bit that stands for pn in a window whose highest number is last.
ArwinBit(last, pn) == (SIGNSKY_ARWIN_SIZE - 1) - U64ToNat(U64Sub(last, pn))

\* A window that reaches one packet number further back.
ArwinInsideOrEdge(last, pn) == ~U64Lt(U64OfNat(SIGNSKY_ARWIN_SIZE), U64Sub(last, pn))

\* SIGNSKY_ARWIN_SIZE > io->arwin->last - hdr->pn, in 64-bit arithmetic.
ArwinInside(last, pn) == U64Lt(U64Sub(last, pn), U64OfNat(SIGNSKY_ARWIN_SIZE))

\* bitmap >>= n, the bitmap held as the set of its set bits.
ShiftRight(bitmap, n) == {b - n : b \in {x \in bitmap : x >= n}}

\* A pre-check that lets every packet number through.
ArwinCheckAcceptsAll(aw, hdr) == 0

decrypt_arwin_check(aw, hdr) ==
    IF Low32(hdr.pn) # hdr.seq THEN -1
    ELSE IF U64Lt(aw.last, hdr.pn) THEN 0
    ELSE IF U64Lt(U64Zero, hdr.pn) /\ ArwinInside(aw.last, hdr.pn)
      THEN IF ArwinBit(aw.last, hdr.pn) \in aw.bitmap THEN -1 ELSE 0
    ELSE -1

\* A decrypt_arwin_update that moves last but records no packet number.
ArwinUpdateForgets(aw, hdr) ==
    [corrupt |-> FALSE,
     aw |-> [aw EXCEPT !.last = IF U64Lt(aw.last, hdr.pn) THEN hdr.pn ELSE @]]

\* A decrypt_arwin_update that keeps the bitmap in place when last moves.
ArwinUpdateNoShift(aw, hdr) ==
    IF U64Lt(aw.last, hdr.pn)
      THEN [corrupt |-> FALSE, aw |-> [last |-> hdr.pn, bitmap |-> aw.bitmap \cup {63}]]
      ELSE [corrupt |-> FALSE,
            aw |-> [aw EXCEPT !.bitmap = @ \cup {ArwinBit(aw.last, hdr.pn)}]]

\* The window after decrypt_arwin_update; corrupt stands for the fatal
\* "window corrupt" branch.
decrypt_arwin_update(aw, hdr) ==
    IF U64Lt(aw.last, hdr.pn)
      THEN [corrupt |-> FALSE,
            aw |-> [last |-> hdr.pn,
                    bitmap |-> IF ~ArwinInside(hdr.pn, aw.last)
                                 THEN {63}
                                 ELSE ShiftRight(aw.bitmap,
                                          U64ToNat(U64Sub(hdr.pn, aw.last))) \cup {63}]]
      ELSE [corrupt |-> U64Lt(aw.last, hdr.pn),
            aw |-> [aw EXCEPT !.bitmap = @ \cup {ArwinBit(aw.last, hdr.pn)}]]

\* Length check of the spec, section 4.5 step 2: header, trailer and tag.
signsky_packet_crypto_checklen(pkt) ==
    IF pkt.length < HdrLen + TailLen + CIPHER_AES_GCM_TAG_SIZE THEN -1 ELSE 0

NoSeal == [key |-> ZeroKey, nonce |-> <<>>, aad |-> <<>>]

\* signsky_cipher_decrypt: works in place, so the buffer no longer holds
\* the ciphertext afterwards whatever the verdict on the tag.
signsky_cipher_decrypt(ctx, nonce, aad, pkt) ==
    IF pkt.length < CIPHER_AES_GCM_TAG_SIZE
      THEN [ret |-> -1, pkt |-> pkt]
      ELSE [ret |-> IF /\ pkt.intact
                       /\ pkt.seal.key = ctx.key
                       /\ pkt.seal.nonce = nonce
                       /\ pkt.seal.aad = aad
                      THEN 0 ELSE -1,
            pkt |-> [pkt EXCEPT !.intact = FALSE, !.seal = NoSeal]]

\* What one packet does to the worker and the shared cells.
RxWork(pkt, st) ==
    [pkt |-> pkt, arwin |-> arwin, peer |-> peer, clear |-> clear,
     updates |-> <<>>, queued |-> FALSE, corrupt |-> FALSE, ret |-> -1, st |-> st]

\* decrypt_with_slot(sa, pkt) on the work record w; sa is the slot's name.
decrypt_with_slot(sa, w) ==
    LET s == w.st[sa]
        hdr == w.pkt
    IN  IF s.cipher = NULL THEN [w EXCEPT !.ret = -1]
        ELSE IF hdr.spi # s.spi THEN [w EXCEPT !.ret = -1]
        ELSE IF decrypt_arwin_check(w.arwin, hdr) = -1 THEN [w EXCEPT !.ret = -1]
        ELSE
          LET d == signsky_cipher_decrypt(ciphers.decrypt[s.cipher],
                        <<s.salt, hdr.pn>>, <<s.spi, hdr.pn>>, w.pkt)
          IN  IF d.ret = -1 THEN [w EXCEPT !.ret = -1, !.pkt = d.pkt]
              ELSE
                LET u == decrypt_arwin_update(w.arwin, hdr)
                    len == d.pkt.length - HdrLen - TailLen - CIPHER_AES_GCM_TAG_SIZE
                    w1 == [w EXCEPT !.arwin = u.aw,
                                    !.corrupt = u.corrupt,
                                    !.updates = Append(@, <<s.cipher, hdr.pn>>),
                                    !.peer = IF d.pkt.addr # w.peer
                                               THEN d.pkt.addr ELSE w.peer,
                                    !.pkt = [d.pkt EXCEPT !.length = len]]
                IN  IF w1.pkt.pad # 0 \/ w1.pkt.next # IPPROTO_IP
                      THEN [w1 EXCEPT !.ret = -1]
                      ELSE
                        LET out == [w1.pkt EXCEPT !.target = SIGNSKY_PROC_CLEAR]
                            q == RingQueueCall(w1.clear, out)
                        IN  [w1 EXCEPT !.ret = 0, !.pkt = out,
                                       !.clear = q.ring, !.queued = q.ret = 0]

\* hdr->esp.spi = be32toh(...); hdr->esp.seq = be32toh(...); hdr->pn = be64toh(...)
HostOrder(pkt) ==
    [pkt EXCEPT !.spi = be32toh(@), !.seq = be32toh(@), !.pn = be64toh(@)]

\* A swap that copies the pending SA but leaves slot_2 as it was.
PromoteKeepsPending(st) ==
    [slot_1 |-> st.slot_2, slot_2 |-> st.slot_2]

\* The swap at the end of decrypt_packet_process.
PromotePending(st) ==
    [slot_1 |-> [spi |-> st.slot_2.spi, salt |-> st.slot_2.salt,
                 seqnr |-> st.slot_2.seqnr, cipher |-> st.slot_2.cipher],
     slot_2 |-> NoSA]

\* decrypt_packet_process after its decrypt_keys_install: [w, via, promoted].
decrypt_packet_process(pkt, st) ==
    IF signsky_packet_crypto_checklen(pkt) = -1
      THEN [w |-> RxWork(pkt, st), via |-> "drop"]
      ELSE
        LET w1 == decrypt_with_slot("slot_1", RxWork(HostOrder(pkt), st))
        IN  IF w1.ret # -1 THEN [w |-> w1, via |-> "slot_1"]
            ELSE
              LET w2 == decrypt_with_slot("slot_2", w1)
              IN  IF w2.ret = -1 THEN [w |-> w2, via |-> "drop"]
                  ELSE [w |-> w2, via |-> "slot_2"]

NoLast == [pkt |-> NoPacket, via |-> "none", queued |-> FALSE, updates |-> <<>>,
           st |-> [slot_1 |-> NoSA, slot_2 |-> NoSA], arwin |-> NoArwin]

DecryptProcess ==
    /\ Alive("decrypt") /\ dpc = "process"
    /\ \E pkt \in Packets :
       LET r == decrypt_packet_process(pkt, dstate)
           w == r.w
       IN  /\ arwin' = w.arwin
           /\ peer' = w.peer
           /\ clear' = w.clear
           /\ accepted' = accepted \o w.updates
           /\ rxlast' = [pkt |-> pkt, via |-> r.via, queued |-> w.queued,
                         updates |-> w.updates, st |-> dstate, arwin |-> arwin]
           /\ IF w.corrupt
                THEN /\ Fatal("decrypt", "window corrupt")
                     /\ UNCHANGED <<dstate, ciphers, rxstat>>
                ELSE IF r.via = "slot_2"
                  THEN /\ rxstat' = [rxstat EXCEPT !.spi = dstate.slot_2.spi]
                       /\ ciphers' = [ciphers EXCEPT !.decrypt =
                                signsky_cipher_cleanup(@, dstate.slot_1.cipher)]
                       /\ dstate' = PromotePending(dstate)
                       /\ UNCHANGED died
                  ELSE UNCHANGED <<dstate, ciphers, rxstat, died>>
    /\ dpc' = "loop"
    /\ UNCHANGED <<dloc, key, kpc, kreq, nreq, epc, estate, npkt>>
    /\ UNCHANGED <<ringvars, extvars>>

----------------------------------------------------------------------------
(* src/src/clear.c: the clear worker drains the clear queue.               *)

\* pkt = signsky_ring_dequeue(io->clear); clear_send_packet(fd, pkt): the
\* counters move only when the write to the tunnel device went through.
ClearSend ==
    /\ ~RingEmptyTest(clear.consumer.head, clear.producer.tail)
    /\ LET d == RingDequeueCall(clear)
       IN  /\ clear' = d.ring
           /\ \E written \in BOOLEAN :
                rxstat' = IF written
                            THEN [rxstat EXCEPT !.pkt = @ + 1,
                                                !.bytes = @ + d.ptr.length]
                            ELSE rxstat
    /\ UNCHANGED <<dpc, dloc, dstate, arwin, peer, npkt, accepted, rxlast, died>>
    /\ UNCHANGED keyvars
    /\ UNCHANGED <<ringvars, extvars>>

----------------------------------------------------------------------------
(* The way of a packet: clear_recv_packets (src/src/clear.c),              *)
(* encrypt_packet_process (src/src/encrypt.c), crypto_send_packet and      *)
(* crypto_recv_packets (src/src/crypto.c).  Each operator gives what the   *)
(* code does with one packet buffer: act is "queue", "release" or "fatal". *)

SIGNSKY_PROC_CRYPTO == 2

SIGNSKY_PROC_ENCRYPT == 3

SIGNSKY_PACKET_DATA_LEN == 1500

SIGNSKY_PACKET_MAX_LEN == 2048

SIGNSKY_PACKET_MIN_LEN == 12

\* The decrypt queue may hold up to 1023 packets behind the window.
ArwinQueueSlack == 1023

Reverse(s) == [i \in 1..Len(s) |-> s[Len(s) + 1 - i]]

\* The bytes in memory of a value that the CPU stored without conversion.
Host32Bytes(order, a) == IF order = "big" THEN Be32Bytes(a) ELSE Reverse(Be32Bytes(a))

Host64Bytes(order, a) == IF order = "big" THEN Be64Bytes(a) ELSE Reverse(Be64Bytes(a))

\* state.seqnr++
U64Add(a, b) == SizeAdd(a, b)

\* signsky_packet_get: a buffer of the pool with length and target zeroed;
\* data names the inner datagram that the buffer holds, 0 for none.
FreshPacket ==
    [length |-> 0, target |-> 0, addr |-> <<0, 0>>,
     spi |-> Be32Bytes(U32Zero), seq |-> Be32Bytes(U32Zero),
     pn |-> Be64Bytes(U64Zero), seal |-> NoSeal, intact |-> FALSE,
     pad |-> 0, next |-> 0, data |-> 0]

\* One turn of the loop of clear_recv_packets with a buffer of the pool:
\* read() returned ret bytes of the inner datagram data.
clear_recv_one(pkt, ret, data) ==
    IF ret = 0 THEN [act |-> "fatal", pkt |-> pkt]
    ELSE IF ret <= SIGNSKY_PACKET_MIN_LEN
      THEN [act |-> "release", pkt |-> [pkt EXCEPT !.data = data]]
    ELSE [act |-> "queue",
          pkt |-> [pkt EXCEPT !.data = data, !.length = ret,
                              !.target = SIGNSKY_PROC_ENCRYPT]]

\* sizeof(*hdr) + sizeof(*tail) + signsky_cipher_overhead()
EspOverhead == HdrLen + TailLen + CIPHER_AES_GCM_TAG_SIZE

\* signsky_cipher_encrypt: VERIFY on the room for the tag, then
\* signsky_packet_data with its PRECOND on the length, then the seal.
signsky_cipher_encrypt(ctx, nonce, aad, pkt) ==
    IF ~(pkt.length + CIPHER_AES_GCM_TAG_SIZE < SIGNSKY_PACKET_MAX_LEN)
      THEN [ok |-> FALSE, pkt |-> pkt]
    ELSE IF ~(pkt.length <= SIGNSKY_PACKET_DATA_LEN)
      THEN [ok |-> FALSE, pkt |-> pkt]
    ELSE [ok |-> TRUE,
          pkt |-> [pkt EXCEPT !.seal = [key |-> ctx.key, nonce |-> nonce, aad |-> aad],
                              !.intact = TRUE,
                              !.length = @ + CIPHER_AES_GCM_TAG_SIZE]]

\* An encrypt_packet_process that ships what it is given, key or no key.
EncryptShipsUnkeyed(pkt, st, cs, order) == [act |-> "queue", pkt |-> pkt, st |-> st]

\* encrypt_packet_process after its encrypt_install_pending, under the
\* worker's state st and cipher contexts cs, built for byte order order.
encrypt_packet_process(pkt, st, cs, order) ==
    IF pkt.target # SIGNSKY_PROC_ENCRYPT
      THEN [act |-> "fatal", pkt |-> pkt, st |-> st]
    ELSE IF st.cipher = NULL
      THEN [act |-> "release", pkt |-> pkt, st |-> st]
    ELSE IF pkt.length + EspOverhead > SIGNSKY_PACKET_MAX_LEN
      THEN [act |-> "release", pkt |-> pkt, st |-> st]
    ELSE
      LET pn == st.seqnr
          st1 == [st EXCEPT !.seqnr = U64Add(@, U64One)]
          p1 == [pkt EXCEPT !.pn = Host64Bytes(order, pn),
                            !.spi = Host32Bytes(order, st.spi),
                            !.seq = Host32Bytes(order, Low32(pn)),
                            !.pad = 0,
                            !.next = IPPROTO_IPV4,
                            !.length = @ + TailLen]
          e == signsky_cipher_encrypt(cs[st.cipher], <<st.salt, pn>>,
                                      <<st.spi, pn>>, p1)
      IN  IF ~e.ok THEN [act |-> "fatal", pkt |-> e.pkt, st |-> st1]
          ELSE IF ~(e.pkt.length + HdrLen < SIGNSKY_PACKET_MAX_LEN)
            THEN [act |-> "fatal", pkt |-> e.pkt, st |-> st1]
          ELSE [act |-> "queue",
                pkt |-> [e.pkt EXCEPT !.length = @ + HdrLen], st |-> st1]

\* crypto_send_packet with the peer address it read: the buffer is released
\* whether or not a datagram left.
crypto_send_packet(pkt, ip, port) ==
    IF pkt.target # SIGNSKY_PROC_CRYPTO
      THEN [act |-> "fatal", sent |-> FALSE, to |-> <<ip, port>>]
    ELSE IF ip = 0
      THEN [act |-> "release", sent |-> FALSE, to |-> <<ip, port>>]
    ELSE [act |-> "release", sent |-> TRUE, to |-> <<ip, port>>]

\* An eager check that drops every packet number at or below last.
CryptoCheckOnlyNewer(pkt, aw) ==
    IF signsky_packet_crypto_checklen(pkt) = -1 THEN -1
    ELSE IF U64Lt(aw.last, be64toh(pkt.pn)) THEN 0
    ELSE -1

crypto_arwin_check(pkt, aw) ==
    IF signsky_packet_crypto_checklen(pkt) = -1 THEN -1
    ELSE
      LET seq == be32toh(pkt.seq)
          pn == be64toh(pkt.pn)
      IN  IF Low32(pn) # seq THEN -1
          ELSE IF U64Lt(aw.last, pn) THEN 0
          ELSE IF /\ U64Lt(U64Zero, pn)
                  /\ U64Lt(U64Sub(aw.last, pn),
                           U64OfNat(SIGNSKY_ARWIN_SIZE + ArwinQueueSlack))
            THEN 0
          ELSE -1

\* One turn of the loop of crypto_recv_packets with a buffer of the pool:
\* recvfrom() copies at most SIGNSKY_PACKET_DATA_LEN bytes of the datagram
\* dgram; a longer datagram arrives cut short.
crypto_recv_one(pkt, dgram, aw) ==
    LET ret == IF dgram.length > SIGNSKY_PACKET_DATA_LEN
                 THEN SIGNSKY_PACKET_DATA_LEN ELSE dgram.length
        p == [dgram EXCEPT !.length = ret,
                           !.target = SIGNSKY_PROC_DECRYPT,
                           !.intact = @ /\ dgram.length <= SIGNSKY_PACKET_DATA_LEN]
    IN  IF ret = 0 THEN [act |-> "fatal", pkt |-> pkt]
        ELSE IF crypto_arwin_check(p, aw) = -1 THEN [act |-> "release", pkt |-> p]
        ELSE [act |-> "queue", pkt |-> p]

----------------------------------------------------------------------------
(* The system: keying, encrypt and decrypt workers around the key slots,   *)
(* the decrypt worker fed from the network, the clear worker behind it.    *)

NoKey == [state |-> SIGNSKY_KEY_EMPTY, spi |-> U32Zero, key |-> ZeroKey]

\* The ring variables while the system runs, the system variables while a
\* ring is exercised on its own.
RingIdle ==
    /\ ring = RawRing /\ ringst = "raw" /\ elmArg = 0
    /\ rpc = [u \in RingUsers |-> "idle"]
    /\ rloc = [u \in RingUsers |-> NoLocals]
    /\ ntag = 0 /\ queued = <<>> /\ returned = <<>> /\ fullseen = 0

\* The supervisor while it is not exercised.
SupIdle ==
    /\ spc = "none" /\ ssig = "none"
    /\ wpc = "none" /\ wsig = "none" /\ sigrecv = "none"
    /\ proclist = {} /\ attached = "none"

\* The peer address update while it is not exercised.
PeerIdle ==
    /\ roam = "idle" /\ snd = "idle" /\ sentto = {} /\ together = {}
    /\ nroam = 0 /\ nsend = 0

\* The records of the packet number and window checks while not exercised.
HistIdle == txpns = <<>> /\ txlog = <<>> /\ kgot = "none" /\ wtest = "none" /\ dropped = {} /\ inq = <<>>

\* The peer address update and the supervisor while they are not exercised.
SideIdle == PeerIdle /\ SupIdle /\ HistIdle

\* The packet buffers and the work queues while they are not exercised.
DataIdle ==
    /\ endian = "little"
    /\ tun = [n |-> 0, data |-> 0]
    /\ flight = [stage |-> "none", pkt |-> NoPacket]
    /\ pool = RawRing
    /\ wq = [q \in {"encrypt", "crypto", "decrypt"} |-> RawRing]
    /\ held = [w \in {"clear", "encrypt", "crypto", "decrypt"} |-> NoPacket]
    /\ ntun = 0 /\ nnet = 0
    /\ txlast = "none"
    /\ qres = "none"

\* The data path while it is not exercised.
ExtIdle == DataIdle /\ SideIdle

SysInit ==
    /\ key = [tx |-> NoKey, rx |-> NoKey]
    /\ kpc = "poll" /\ kreq = NoRequest /\ nreq = 0
    /\ epc = "loop" /\ estate = NoSA
    /\ dpc = "loop" /\ dloc = NoDloc
    /\ dstate = [slot_1 |-> NoSA, slot_2 |-> NoSA]
    /\ ciphers = [encrypt |-> <<>>, decrypt |-> <<>>]
    /\ arwin = NoArwin
    /\ peer = <<0, 0>>
    /\ rxstat = [spi |-> U32Zero, pkt |-> 0, bytes |-> 0]
    /\ clear = RingInitValue(ClearElm)
    /\ npkt = 0
    /\ died = [w \in Workers |-> "none"]
    /\ accepted = <<>>
    /\ rxlast = NoLast

Init == SysInit /\ RingIdle /\ ExtIdle

Next ==
    \/ KeyingRecv
    \/ KeyingInstallEnter
    \/ KeyingWait
    \/ KeyingCasGenerating
    \/ KeyingCopy
    \/ KeyingCasPending
    \/ EncryptInstallRead
    \/ EncryptCasInstalling
    \/ EncryptInstallBody
    \/ EncryptCasEmpty
    \/ DecryptLoopInstall
    \/ DecryptDequeue
    \/ DecryptPacketInstall
    \/ DecryptCasInstalling
    \/ DecryptInstallBody
    \/ DecryptCasEmpty
    \/ DecryptProcess
    \/ ClearSend

Spec == Init /\ [][Next]_vars

----------------------------------------------------------------------------
(* Specifications of the ring.                                             *)

\* An initialised ring shared by NProducers producers and NConsumers consumers.
RingAt(start) ==
    [RingInitValue(RingElm) EXCEPT !.producer = [head |-> start, tail |-> start],
                                   !.consumer = [head |-> start, tail |-> start]]

InitRing ==
    /\ SysInit
    /\ ExtIdle
    /\ \E start \in RingStarts : ring = RingAt(start)
    /\ ringst = "ok"
    /\ elmArg = RingElm
    /\ rpc = [u \in RingUsers |-> "idle"]
    /\ rloc = [u \in RingUsers |-> NoLocals]
    /\ ntag = 0
    /\ queued = <<>>
    /\ returned = <<>>
    /\ fullseen = 0

NextRing ==
    \/ \E p \in Producers : QueueCall(p)
    \/ \E p \in Producers : QueueReadHead(p)
    \/ \E p \in Producers : QueueReadTail(p)
    \/ \E p \in Producers : QueueCas(p)
    \/ \E p \in Producers : QueueWrite(p)
    \/ \E p \in Producers : QueuePublish(p)
    \/ \E c \in Consumers : DequeueCall(c)
    \/ \E c \in Consumers : DequeueReadHead(c)
    \/ \E c \in Consumers : DequeueReadTail(c)
    \/ \E c \in Consumers : DequeueCas(c)
    \/ \E c \in Consumers : DequeueRead(c)
    \/ \E c \in Consumers : DequeuePublish(c)

SpecRing == InitRing /\ [][NextRing]_vars

\* signsky_ring_init applied to every capacity of ElmInputs.
InitRingInit ==
    /\ SysInit
    /\ ExtIdle
    /\ elmArg \in ElmInputs
    /\ ring = RawRing
    /\ ringst = "raw"
    /\ rpc = [u \in RingUsers |-> "idle"]
    /\ rloc = [u \in RingUsers |-> NoLocals]
    /\ ntag = 0
    /\ queued = <<>>
    /\ returned = <<>>
    /\ fullseen = 0

NextRingInit == signsky_ring_init

SpecRingInit == InitRingInit /\ [][NextRingInit]_vars

----------------------------------------------------------------------------
(* One inner datagram followed from the tunnel device through the clear,   *)
(* encrypt and crypto workers, over the wire, and through the crypto and   *)
(* decrypt workers of a peer that runs the same code with the same SA.     *)

NPayloads == 2

MaxTxSeq == 2

Payloads == 1..NPayloads

\* Lengths at the edges of every length test on the way.
RtLens ==
    {SIGNSKY_PACKET_MIN_LEN, SIGNSKY_PACKET_MIN_LEN + 1, 64,
     SIGNSKY_PACKET_DATA_LEN - EspOverhead, SIGNSKY_PACKET_DATA_LEN - EspOverhead + 1,
     SIGNSKY_PACKET_DATA_LEN - TailLen, SIGNSKY_PACKET_DATA_LEN - TailLen + 1,
     SIGNSKY_PACKET_DATA_LEN}

\* The configured peer address (ip, port).
PeerAddr == <<1, 1>>

\* The SA that both ends installed from the first secret at SPI A.
SharedCipher == [key |-> Secret(1), live |-> TRUE, frees |-> 0]

TxSA(seq) == [spi |-> SpiA, salt |-> U32Zero, seqnr |-> U64OfNat(seq), cipher |-> 1]

RxSA == [spi |-> SpiA, salt |-> U32Zero, seqnr |-> U64One, cipher |-> 1]

\* The buffer as clear_recv_packets queues it for a datagram of n bytes.
TunnelPacket(n, data) == clear_recv_one(FreshPacket, n, data).pkt

InitRoundTrip ==
    /\ RingIdle
    /\ SideIdle
    /\ key = [tx |-> NoKey, rx |-> NoKey]
    /\ kpc = "poll" /\ kreq = NoRequest /\ nreq = 0
    /\ epc = "loop" /\ dpc = "loop" /\ dloc = NoDloc
    /\ \E seq \in 1..MaxTxSeq : estate = TxSA(seq)
    /\ dstate = [slot_1 |-> RxSA, slot_2 |-> NoSA]
    /\ ciphers = [encrypt |-> <<SharedCipher>>, decrypt |-> <<SharedCipher>>]
    /\ arwin = NoArwin
    /\ peer = PeerAddr
    /\ rxstat = [spi |-> SpiA, pkt |-> 0, bytes |-> 0]
    /\ clear = RingInitValue(ClearElm)
    /\ npkt = 0
    /\ died = [w \in Workers |-> "none"]
    /\ accepted = <<>>
    /\ rxlast = NoLast
    /\ endian \in {"little", "big"}
    /\ tun \in [n : RtLens, data : Payloads]
    /\ pool = RawRing
    /\ wq = [q \in {"encrypt", "crypto", "decrypt"} |-> RawRing]
    /\ held = [w \in {"clear", "encrypt", "crypto", "decrypt"} |-> NoPacket]
    /\ ntun = 0 /\ nnet = 0
    /\ txlast = "none"
    /\ qres = "none"
    /\ \/ flight = [stage |-> "tunnel", pkt |-> FreshPacket]
       \/ LET e == encrypt_packet_process(TunnelPacket(tun.n, tun.data), estate,
                                          ciphers.encrypt, endian)
          IN  /\ e.act = "queue"
              /\ flight = [stage |-> "wire", pkt |-> [e.pkt EXCEPT !.addr = PeerAddr]]

\* clear_recv_packets: the read from the tunnel device and what follows.
RtClearRecv ==
    /\ Alive("clear") /\ flight.stage = "tunnel"
    /\ LET r == clear_recv_one(flight.pkt, tun.n, tun.data)
       IN  IF r.act = "fatal"
             THEN /\ Fatal("clear", "eof on tunnel interface")
                  /\ flight' = [stage |-> "aborted", pkt |-> r.pkt]
             ELSE /\ flight' = [stage |-> IF r.act = "queue" THEN "encrypt_queue"
                                                             ELSE "released",
                                pkt |-> r.pkt]
                  /\ UNCHANGED died
    /\ UNCHANGED <<key, kpc, kreq, nreq, epc, estate, ciphers, endian, tun>>
    /\ UNCHANGED rxvars
    /\ UNCHANGED <<ringvars, pathvars, sidevars>>

\* The encrypt worker dequeues the buffer and runs encrypt_packet_process;
\* the result of its signsky_ring_queue(io->crypto, pkt) is not looked at.
RtEncrypt ==
    /\ Alive("encrypt") /\ flight.stage = "encrypt_queue"
    /\ LET r == encrypt_packet_process(flight.pkt, estate, ciphers.encrypt, endian)
       IN  /\ estate' = r.st
           /\ IF r.act = "fatal"
                THEN /\ Fatal("encrypt", "precondition failed")
                     /\ flight' = [stage |-> "aborted", pkt |-> r.pkt]
                ELSE /\ flight' = [stage |-> IF r.act = "queue" THEN "crypto_queue"
                                                                ELSE "released",
                                   pkt |-> r.pkt]
                     /\ UNCHANGED died
    /\ UNCHANGED <<key, kpc, kreq, nreq, epc, ciphers, endian, tun>>
    /\ UNCHANGED rxvars
    /\ UNCHANGED <<ringvars, pathvars, sidevars>>

\* The crypto worker dequeues the buffer and runs crypto_send_packet.
RtCryptoSend ==
    /\ Alive("crypto") /\ flight.stage = "crypto_queue"
    /\ LET r == crypto_send_packet(flight.pkt, peer[1], peer[2])
       IN  IF r.act = "fatal"
             THEN /\ Fatal("crypto", "precondition failed")
                  /\ flight' = [flight EXCEPT !.stage = "aborted"]
             ELSE /\ flight' = [stage |-> IF r.sent THEN "wire" ELSE "released",
                                pkt |-> [flight.pkt EXCEPT !.addr = PeerAddr]]
                  /\ UNCHANGED died
    /\ UNCHANGED <<key, kpc, kreq, nreq, epc, estate, ciphers, endian, tun>>
    /\ UNCHANGED rxvars
    /\ UNCHANGED <<ringvars, pathvars, sidevars>>

\* crypto_recv_packets of the receiving end takes the datagram off the wire.
RtCryptoRecv ==
    /\ Alive("crypto") /\ flight.stage = "wire"
    /\ LET r == crypto_recv_one(FreshPacket, flight.pkt, arwin)
       IN  IF r.act = "fatal"
             THEN /\ Fatal("crypto", "eof on crypto interface")
                  /\ flight' = [flight EXCEPT !.stage = "aborted"]
             ELSE /\ flight' = [stage |-> IF r.act = "queue" THEN "decrypt_queue"
                                                             ELSE "released",
                                pkt |-> r.pkt]
                  /\ UNCHANGED died
    /\ UNCHANGED <<key, kpc, kreq, nreq, epc, estate, ciphers, endian, tun>>
    /\ UNCHANGED rxvars
    /\ UNCHANGED <<ringvars, pathvars, sidevars>>

\* The decrypt worker dequeues the buffer and runs decrypt_packet_process.
RtDecrypt ==
    /\ Alive("decrypt") /\ flight.stage = "decrypt_queue"
    /\ LET r == decrypt_packet_process(flight.pkt, dstate)
           w == r.w
       IN  /\ arwin' = w.arwin
           /\ peer' = w.peer
           /\ clear' = w.clear
           /\ accepted' = accepted \o w.updates
           /\ rxlast' = [pkt |-> flight.pkt, via |-> r.via, queued |-> w.queued,
                         updates |-> w.updates, st |-> dstate, arwin |-> arwin]
           /\ flight' = [stage |-> IF w.queued THEN "clear_queue" ELSE "released",
                         pkt |-> w.pkt]
           /\ IF w.corrupt
                THEN /\ Fatal("decrypt", "window corrupt")
                     /\ UNCHANGED <<dstate, ciphers, rxstat>>
                ELSE IF r.via = "slot_2"
                  THEN /\ rxstat' = [rxstat EXCEPT !.spi = dstate.slot_2.spi]
                       /\ ciphers' = [ciphers EXCEPT !.decrypt =
                                signsky_cipher_cleanup(@, dstate.slot_1.cipher)]
                       /\ dstate' = PromotePending(dstate)
                       /\ UNCHANGED died
                  ELSE UNCHANGED <<dstate, ciphers, rxstat, died>>
    /\ UNCHANGED <<dpc, dloc, key, kpc, kreq, nreq, epc, estate, npkt, endian, tun>>
    /\ UNCHANGED <<ringvars, pathvars, sidevars>>

NextRoundTrip ==
    \/ RtClearRecv
    \/ RtEncrypt
    \/ RtCryptoSend
    \/ RtCryptoRecv
    \/ RtDecrypt

SpecRoundTrip == InitRoundTrip /\ [][NextRoundTrip]_vars

----------------------------------------------------------------------------
(* The packet pool (src/src/packet.c; pool.c is not part of the sources:   *)
(* the pool is the ring of struct signsky_pool holding the free buffers)   *)
(* and the four workers of the data path around it.                        *)

PoolLog == 1

MaxTun == 2

MaxNet == 2

\* Number of packet buffers, 1024 in signsky_packet_init.
PoolElm == 2^PoolLog

Buffers == 1..PoolElm

PathWorkers == {"clear", "encrypt", "crypto", "decrypt"}

\* Lengths read from the tunnel device: too short, usual, too long for the
\* trailer.
TunLens == {SIGNSKY_PACKET_MIN_LEN, 64, SIGNSKY_PACKET_DATA_LEN}

\* The datagrams that arrive from the network: those for SPI A with packet
\* number 1, well-formed with either trailer, truncated, or with a sequence
\* field that is not the low half of the packet number.
NetPackets ==
    {p \in Packets : p.spi = Be32Bytes(SpiA) /\ p.pn = Be64Bytes(U64OfNat(1))}

\* The packet p in the buffer b of the pool.
WithBuf(p, b) == [f \in (DOMAIN p) \cup {"buf"} |-> IF f = "buf" THEN b ELSE p[f]]

\* The pool ring r with the buffers from b on put in, but for the one out.
RECURSIVE PoolFill(_, _, _)
PoolFill(r, b, out) ==
    IF b > PoolElm THEN r
    ELSE PoolFill(IF b = out THEN r ELSE RingQueueCall(r, b).ring, b + 1, out)

\* signsky_pool_init(n, len): every buffer is free.
signsky_pool_init == PoolFill(RingInitValue(PoolElm), 1, 0)

\* signsky_packet_get: pkt = signsky_pool_get(pktpool); pkt->length = 0;
\* pkt->target = 0.  With an empty pool the two stores go through a null
\* pointer: the worker faults, or the stores pass and NULL is returned.
signsky_packet_get(pl) ==
    LET d == RingDequeueCall(pl)
    IN  IF d.ptr = NULL
          THEN {[out |-> o, pkt |-> NoPacket, pool |-> pl] : o \in {"fault", "null"}}
          ELSE {[out |-> "ok", pkt |-> WithBuf(FreshPacket, d.ptr), pool |-> d.ring]}

\* A signsky_packet_release that drops the buffer on the floor.
ReleaseForgets(pl, pkt) == pl

\* signsky_packet_release: signsky_pool_put(pktpool, pkt)
signsky_packet_release(pl, pkt) == RingQueueCall(pl, pkt.buf).ring

\* What each producer does when its signsky_ring_queue returned ret: TRUE
\* when it releases the packet.  clear.c:199, crypto.c:266 and decrypt.c:242
\* test for -1; encrypt.c:169 does not look at the value.
ReleasesOnFull(site, ret) ==
    CASE site = "clear" -> ret = -1
      [] site = "crypto" -> ret = -1
      [] site = "decrypt" -> ret = -1
      [] site = "encrypt" -> FALSE

\* The pool after a producer's signsky_ring_queue of pkt returned ret.
AfterQueue(site, ret, pl, pkt) ==
    IF ReleasesOnFull(site, ret) THEN signsky_packet_release(pl, pkt) ELSE pl

\* The entries of a ring from consumer.head up to producer.tail.
RingContents(r) ==
    LET n == U32ToNat(U32Sub(r.producer.tail, r.consumer.head))
    IN  [i \in 1..n |-> RingData(r, RingSlot(r, U32Add(r.consumer.head, U32OfNat(i - 1))))]

NoTxLast == [act |-> "none", pkt |-> NoPacket, st |-> NoSA]

\* One turn of the loop of clear_recv_packets.
PipeClearRecv ==
    /\ Alive("clear") /\ ntun < MaxTun
    /\ ntun' = ntun + 1
    /\ \E n \in TunLens : \E g \in signsky_packet_get(pool) :
         IF g.out = "fault"
           THEN /\ Fatal("clear", "fault in signsky_packet_get")
                /\ UNCHANGED <<pool, wq>>
         ELSE IF g.out = "null"
           THEN UNCHANGED <<pool, wq, died>>
         ELSE
           LET r == clear_recv_one(g.pkt, n, ntun + 1)
           IN  IF r.act = "fatal"
                 THEN /\ Fatal("clear", "eof on tunnel interface")
                      /\ pool' = g.pool
                      /\ UNCHANGED wq
               ELSE IF r.act = "release"
                 THEN /\ pool' = signsky_packet_release(g.pool, r.pkt)
                      /\ UNCHANGED <<wq, died>>
               ELSE
                 LET q == RingQueueCall(wq.encrypt, r.pkt)
                 IN  /\ wq' = [wq EXCEPT !.encrypt = q.ring]
                     /\ pool' = AfterQueue("clear", q.ret, g.pool, r.pkt)
                     /\ UNCHANGED died
    /\ UNCHANGED <<held, nnet, txlast, endian, tun, flight, qres>>
    /\ UNCHANGED <<key, kpc, kreq, nreq, epc, estate, ciphers>>
    /\ UNCHANGED rxvars
    /\ UNCHANGED <<ringvars, sidevars>>

\* pkt = signsky_ring_dequeue(io->encrypt) in signsky_encrypt_entry.
PipeEncryptDequeue ==
    /\ Alive("encrypt") /\ held.encrypt = NoPacket
    /\ ~RingEmptyTest(wq.encrypt.consumer.head, wq.encrypt.producer.tail)
    /\ LET d == RingDequeueCall(wq.encrypt)
       IN  /\ wq' = [wq EXCEPT !.encrypt = d.ring]
           /\ held' = [held EXCEPT !.encrypt = d.ptr]
    /\ UNCHANGED <<pool, ntun, nnet, txlast, endian, tun, flight, qres, died>>
    /\ UNCHANGED <<key, kpc, kreq, nreq, epc, estate, ciphers>>
    /\ UNCHANGED rxvars
    /\ UNCHANGED <<ringvars, sidevars>>

\* encrypt_packet_process(pkt); no key is pending in the TX slot.
PipeEncryptProcess ==
    /\ Alive("encrypt") /\ held.encrypt # NoPacket
    /\ LET r == encrypt_packet_process(held.encrypt, estate, ciphers.encrypt, endian)
       IN  /\ estate' = r.st
           /\ txlast' = [act |-> r.act, pkt |-> held.encrypt, st |-> estate]
           /\ IF r.act = "fatal"
                THEN /\ Fatal("encrypt", "precondition failed")
                     /\ UNCHANGED <<pool, wq, held>>
              ELSE IF r.act = "release"
                THEN /\ pool' = signsky_packet_release(pool, r.pkt)
                     /\ held' = [held EXCEPT !.encrypt = NoPacket]
                     /\ UNCHANGED <<wq, died>>
              ELSE
                LET q == RingQueueCall(wq.crypto, r.pkt)
                IN  /\ wq' = [wq EXCEPT !.crypto = q.ring]
                    /\ pool' = AfterQueue("encrypt", q.ret, pool, r.pkt)
                    /\ held' = [held EXCEPT !.encrypt = NoPacket]
                    /\ UNCHANGED died
    /\ UNCHANGED <<ntun, nnet, endian, tun, flight, qres>>
    /\ UNCHANGED <<key, kpc, kreq, nreq, epc, ciphers>>
    /\ UNCHANGED rxvars
    /\ UNCHANGED <<ringvars, sidevars>>

\* pkt = signsky_ring_dequeue(io->crypto); crypto_send_packet(fd, pkt)
PipeCryptoSend ==
    /\ Alive("crypto")
    /\ ~RingEmptyTest(wq.crypto.consumer.head, wq.crypto.producer.tail)
    /\ LET d == RingDequeueCall(wq.crypto)
           r == crypto_send_packet(d.ptr, peer[1], peer[2])
       IN  /\ wq' = [wq EXCEPT !.crypto = d.ring]
           /\ IF r.act = "fatal"
                THEN /\ Fatal("crypto", "precondition failed")
                     /\ held' = [held EXCEPT !.crypto = d.ptr]
                     /\ UNCHANGED pool
                ELSE /\ pool' = signsky_packet_release(pool, d.ptr)
                     /\ UNCHANGED <<held, died>>
    /\ UNCHANGED <<ntun, nnet, txlast, endian, tun, flight, qres>>
    /\ UNCHANGED <<key, kpc, kreq, nreq, epc, estate, ciphers>>
    /\ UNCHANGED rxvars
    /\ UNCHANGED <<ringvars, sidevars>>

\* One turn of the loop of crypto_recv_packets.
PipeCryptoRecv ==
    /\ Alive("crypto") /\ nnet < MaxNet
    /\ nnet' = nnet + 1
    /\ \E dgram \in NetPackets : \E g \in signsky_packet_get(pool) :
         IF g.out = "fault"
           THEN /\ Fatal("crypto", "fault in signsky_packet_get")
                /\ UNCHANGED <<pool, wq>>
         ELSE IF g.out = "null"
           THEN UNCHANGED <<pool, wq, died>>
         ELSE
           LET r == crypto_recv_one(g.pkt, dgram, arwin)
               p == WithBuf(r.pkt, g.pkt.buf)
           IN  IF r.act = "fatal"
                 THEN /\ Fatal("crypto", "eof on crypto interface")
                      /\ pool' = g.pool
                      /\ UNCHANGED wq
               ELSE IF r.act = "release"
                 THEN /\ pool' = signsky_packet_release(g.pool, p)
                      /\ UNCHANGED <<wq, died>>
               ELSE
                 LET q == RingQueueCall(wq.decrypt, p)
                 IN  /\ wq' = [wq EXCEPT !.decrypt = q.ring]
                     /\ pool' = AfterQueue("crypto", q.ret, g.pool, p)
                     /\ UNCHANGED died
    /\ UNCHANGED <<held, ntun, txlast, endian, tun, flight, qres>>
    /\ UNCHANGED <<key, kpc, kreq, nreq, epc, estate, ciphers>>
    /\ UNCHANGED rxvars
    /\ UNCHANGED <<ringvars, sidevars>>

\* pkt = signsky_ring_dequeue(io->decrypt) in signsky_decrypt_entry.
PipeDecryptDequeue ==
    /\ Alive("decrypt") /\ held.decrypt = NoPacket
    /\ ~RingEmptyTest(wq.decrypt.consumer.head, wq.decrypt.producer.tail)
    /\ LET d == RingDequeueCall(wq.decrypt)
       IN  /\ wq' = [wq EXCEPT !.decrypt = d.ring]
           /\ held' = [held EXCEPT !.decrypt = d.ptr]
    /\ UNCHANGED <<pool, ntun, nnet, txlast, endian, tun, flight, qres, died>>
    /\ UNCHANGED <<key, kpc, kreq, nreq, epc, estate, ciphers>>
    /\ UNCHANGED rxvars
    /\ UNCHANGED <<ringvars, sidevars>>

\* decrypt_packet_process(pkt); no key is pending in the RX slot.  A packet
\* that was not queued for the clear worker has been released on the way.
PipeDecryptProcess ==
    /\ Alive("decrypt") /\ held.decrypt # NoPacket
    /\ LET r == decrypt_packet_process(held.decrypt, dstate)
           w == r.w
       IN  /\ arwin' = w.arwin
           /\ peer' = w.peer
           /\ clear' = w.clear
           /\ accepted' = accepted \o w.updates
           /\ rxlast' = [pkt |-> held.decrypt, via |-> r.via, queued |-> w.queued,
                         updates |-> w.updates, st |-> dstate, arwin |-> arwin]
           /\ IF w.corrupt
                THEN /\ Fatal("decrypt", "window corrupt")
                     /\ UNCHANGED <<dstate, ciphers, rxstat, pool, held>>
                ELSE /\ pool' = IF w.queued THEN pool
                                ELSE signsky_packet_release(pool, w.pkt)
                     /\ held' = [held EXCEPT !.decrypt = NoPacket]
                     /\ IF r.via = "slot_2"
                          THEN /\ rxstat' = [rxstat EXCEPT !.spi = dstate.slot_2.spi]
                               /\ ciphers' = [ciphers EXCEPT !.decrypt =
                                        signsky_cipher_cleanup(@, dstate.slot_1.cipher)]
                               /\ dstate' = PromotePending(dstate)
                               /\ UNCHANGED died
                          ELSE UNCHANGED <<dstate, ciphers, rxstat, died>>
    /\ UNCHANGED <<wq, ntun, nnet, txlast, endian, tun, flight, qres>>
    /\ UNCHANGED <<dpc, dloc, key, kpc, kreq, nreq, epc, estate, npkt>>
    /\ UNCHANGED <<ringvars, sidevars>>

\* pkt = signsky_ring_dequeue(io->clear); clear_send_packet(fd, pkt): the
\* buffer goes back to the pool whether or not the write went through.
PipeClearSend ==
    /\ Alive("clear")
    /\ ~RingEmptyTest(clear.consumer.head, clear.producer.tail)
    /\ LET d == RingDequeueCall(clear)
       IN  /\ clear' = d.ring
           /\ IF d.ptr.target # SIGNSKY_PROC_CLEAR
                THEN /\ Fatal("clear", "precondition failed")
                     /\ held' = [held EXCEPT !.clear = d.ptr]
                     /\ UNCHANGED <<pool, rxstat>>
                ELSE /\ pool' = signsky_packet_release(pool, d.ptr)
                     /\ \E written \in BOOLEAN :
                          rxstat' = IF written
                                      THEN [rxstat EXCEPT !.pkt = @ + 1,
                                                          !.bytes = @ + d.ptr.length]
                                      ELSE rxstat
                     /\ UNCHANGED <<held, died>>
    /\ UNCHANGED <<wq, ntun, nnet, txlast, endian, tun, flight, qres>>
    /\ UNCHANGED <<dpc, dloc, dstate, arwin, peer, npkt, accepted, rxlast>>
    /\ UNCHANGED keyvars
    /\ UNCHANGED <<ringvars, sidevars>>

\* The workers after start-up, the key slots empty; the encrypt worker has
\* installed a TX SA or none yet, the decrypt worker a primary RX SA at SPI A
\* and a pending one at SPI B.
InitPipe ==
    /\ RingIdle
    /\ SideIdle
    /\ key = [tx |-> NoKey, rx |-> NoKey]
    /\ kpc = "poll" /\ kreq = NoRequest /\ nreq = 0
    /\ epc = "loop" /\ dpc = "loop" /\ dloc = NoDloc
    /\ \E keyed \in BOOLEAN :
         /\ estate = IF keyed THEN TxSA(1) ELSE NoSA
         /\ ciphers = [encrypt |-> IF keyed THEN <<SharedCipher>> ELSE <<>>,
                       decrypt |-> <<SharedCipher,
                                     [key |-> Secret(2), live |-> TRUE, frees |-> 0]>>]
    /\ dstate = [slot_1 |-> RxSA,
                 slot_2 |-> [spi |-> SpiB, salt |-> U32Zero, seqnr |-> U64One,
                             cipher |-> 2]]
    /\ arwin = NoArwin
    /\ peer = PeerAddr
    /\ rxstat = [spi |-> SpiA, pkt |-> 0, bytes |-> 0]
    /\ clear = RingInitValue(ClearElm)
    /\ npkt = 0
    /\ died = [w \in Workers |-> "none"]
    /\ accepted = <<>>
    /\ rxlast = NoLast
    /\ endian \in {"little", "big"}
    /\ tun = [n |-> 0, data |-> 0]
    /\ flight = [stage |-> "none", pkt |-> NoPacket]
    /\ pool = signsky_pool_init
    /\ wq = [q \in {"encrypt", "crypto", "decrypt"} |-> RingInitValue(ClearElm)]
    /\ held = [w \in PathWorkers |-> NoPacket]
    /\ ntun = 0 /\ nnet = 0
    /\ txlast = NoTxLast
    /\ qres = "none"

NextPipe ==
    \/ PipeClearRecv
    \/ PipeEncryptDequeue
    \/ PipeEncryptProcess
    \/ PipeCryptoSend
    \/ PipeCryptoRecv
    \/ PipeDecryptDequeue
    \/ PipeDecryptProcess
    \/ PipeClearSend

SpecPipe == InitPipe /\ [][NextPipe]_vars

----------------------------------------------------------------------------
(* The four calls of signsky_ring_queue on a work queue, each with the     *)
(* packet its worker built and both values the call can return.            *)

Sites == {"clear", "encrypt", "crypto", "decrypt"}

\* The queue each site produces into.
SiteQueue(wqs, clr, site) ==
    CASE site = "clear" -> wqs.encrypt
      [] site = "encrypt" -> wqs.crypto
      [] site = "crypto" -> wqs.decrypt
      [] site = "decrypt" -> clr

\* The packets that reach the call at each site.
SitePackets(site) ==
    CASE site = "clear" ->
           {TunnelPacket(n, d) : n \in TunLens \ {SIGNSKY_PACKET_MIN_LEN}, d \in Payloads}
      [] site = "encrypt" ->
           {encrypt_packet_process(TunnelPacket(n, d), TxSA(1), <<SharedCipher>>, e).pkt :
               n \in {SIGNSKY_PACKET_MIN_LEN + 1, 64}, d \in Payloads,
               e \in {"little", "big"}}
      [] site = "crypto" ->
           {crypto_recv_one(FreshPacket, g, NoArwin).pkt :
               g \in {x \in GoodPackets : crypto_recv_one(FreshPacket, x, NoArwin).act = "queue"}}
      [] site = "decrypt" ->
           {[g EXCEPT !.target = SIGNSKY_PROC_CLEAR, !.length = PlainLen,
                      !.intact = FALSE, !.seal = NoSeal] :
               g \in {x \in GoodPackets : x.pn # Be64Bytes(U64Zero)}}

\* A worker holds buffer b with its packet and is about to queue it; the
\* other buffers are free.
InitFull ==
    /\ RingIdle
    /\ SideIdle
    /\ SysInit
    /\ endian = "little"
    /\ tun = [n |-> 0, data |-> 0]
    /\ flight = [stage |-> "none", pkt |-> NoPacket]
    /\ wq = [q \in {"encrypt", "crypto", "decrypt"} |-> RingInitValue(ClearElm)]
    /\ ntun = 0 /\ nnet = 0
    /\ txlast = NoTxLast
    /\ \E site \in Sites, b \in Buffers, ret \in {0, -1} :
         /\ qres = [site |-> site, ret |-> ret, buf |-> b, done |-> FALSE]
         /\ \E p \in SitePackets(site) :
              held = [w \in PathWorkers |-> IF w = site THEN WithBuf(p, b) ELSE NoPacket]
         /\ pool = PoolFill(RingInitValue(PoolElm), 1, b)

\* signsky_ring_queue returned qres.ret to the site: with 0 the packet is in
\* the queue, with -1 the queue is as it was; then the site's own code runs.
SiteAfterQueue(site) ==
    /\ qres.site = site /\ ~qres.done
    /\ qres' = [qres EXCEPT !.done = TRUE]
    /\ LET pkt == held[site]
           q == RingQueueCall(SiteQueue(wq, clear, site), pkt).ring
       IN  /\ pool' = AfterQueue(site, qres.ret, pool, pkt)
           /\ held' = [held EXCEPT ![site] = NoPacket]
           /\ IF qres.ret = -1 THEN UNCHANGED <<wq, clear>>
              ELSE IF site = "decrypt" THEN clear' = q /\ UNCHANGED wq
              ELSE /\ wq' = [wq EXCEPT ![IF site = "clear" THEN "encrypt"
                                         ELSE IF site = "encrypt" THEN "crypto"
                                         ELSE "decrypt"] = q]
                   /\ UNCHANGED clear
    /\ UNCHANGED <<ntun, nnet, txlast, endian, tun, flight, died>>
    /\ UNCHANGED <<dpc, dloc, dstate, arwin, peer, rxstat, npkt, accepted, rxlast>>
    /\ UNCHANGED keyvars
    /\ UNCHANGED <<ringvars, sidevars>>

NextFull ==
    \/ SiteAfterQueue("clear")
    \/ SiteAfterQueue("encrypt")
    \/ SiteAfterQueue("crypto")
    \/ SiteAfterQueue("decrypt")

SpecFull == InitFull /\ [][NextFull]_vars

----------------------------------------------------------------------------
(* The peer address: written by decrypt_with_slot (src/src/decrypt.c) when *)
(* an accepted packet comes from another source, read by                   *)
(* crypto_send_packet (src/src/crypto.c), one atomic access per field.     *)

MaxRoams == 2

MaxSends == 2

\* Source addresses (ip, port) of accepted packets; the first is also the
\* configured peer.
Addrs == {<<1, 1>>, <<2, 2>>, <<3, 1>>}

NoRoam == [pc |-> "idle", addr |-> <<0, 0>>]

NoSend == [pc |-> "idle", port |-> 0]

InitPeer ==
    /\ RingIdle
    /\ key = [tx |-> NoKey, rx |-> NoKey]
    /\ kpc = "poll" /\ kreq = NoRequest /\ nreq = 0
    /\ epc = "loop" /\ estate = NoSA
    /\ dpc = "loop" /\ dloc = NoDloc
    /\ dstate = [slot_1 |-> RxSA, slot_2 |-> NoSA]
    /\ ciphers = [encrypt |-> <<>>, decrypt |-> <<SharedCipher>>]
    /\ arwin = NoArwin
    /\ peer = PeerAddr
    /\ rxstat = [spi |-> SpiA, pkt |-> 0, bytes |-> 0]
    /\ clear = RingInitValue(ClearElm)
    /\ npkt = 0
    /\ died = [w \in Workers |-> "none"]
    /\ accepted = <<>>
    /\ rxlast = NoLast
    /\ endian = "little"
    /\ tun = [n |-> 0, data |-> 0]
    /\ flight = [stage |-> "none", pkt |-> NoPacket]
    /\ pool = RawRing
    /\ wq = [q \in {"encrypt", "crypto", "decrypt"} |-> RawRing]
    /\ held = [w \in {"clear", "encrypt", "crypto", "decrypt"} |-> NoPacket]
    /\ ntun = 0 /\ nnet = 0
    /\ txlast = "none"
    /\ qres = "none"
    /\ roam = NoRoam
    /\ snd = NoSend
    /\ sentto = {}
    /\ together = {PeerAddr}
    /\ nroam = 0 /\ nsend = 0
    /\ SupIdle /\ HistIdle

\* What the peer address update and the send leave alone.
PeerFrame ==
    /\ UNCHANGED <<dpc, dloc, dstate, arwin, rxstat, clear, npkt, accepted, rxlast, died>>
    /\ UNCHANGED keyvars
    /\ UNCHANGED <<ringvars, endian, tun, flight, pathvars, supvars, histvars>>

\* decrypt_with_slot after the window update: the source of the accepted
\* packet differs from the stored address, signsky->peer_ip is written.
RoamWriteIp ==
    /\ Alive("decrypt") /\ roam.pc = "idle" /\ nroam < MaxRoams
    /\ \E addr \in Addrs :
         /\ together' = together \cup {addr}
         /\ IF addr[1] # peer[1] \/ addr[2] # peer[2]
              THEN /\ peer' = <<addr[1], peer[2]>>
                   /\ roam' = [pc |-> "port", addr |-> addr]
              ELSE UNCHANGED <<peer, roam>>
    /\ nroam' = nroam + 1
    /\ UNCHANGED <<snd, sentto, nsend>>
    /\ PeerFrame

\* signsky_atomic_write(&signsky->peer_port, pkt->addr.sin_port)
RoamWritePort ==
    /\ Alive("decrypt") /\ roam.pc = "port"
    /\ peer' = <<peer[1], roam.addr[2]>>
    /\ roam' = NoRoam
    /\ UNCHANGED <<snd, sentto, together, nroam, nsend>>
    /\ PeerFrame

\* crypto_send_packet: peer.sin_port = signsky_atomic_read(&signsky->peer_port)
SendReadPort ==
    /\ Alive("crypto") /\ snd.pc = "idle" /\ nsend < MaxSends
    /\ snd' = [pc |-> "ip", port |-> peer[2]]
    /\ nsend' = nsend + 1
    /\ UNCHANGED <<peer, roam, sentto, together, nroam>>
    /\ PeerFrame

\* peer.sin_addr.s_addr = signsky_atomic_read(&signsky->peer_ip); no
\* datagram leaves while the ip is 0, else sendto() goes to the pair read.
SendReadIp ==
    /\ Alive("crypto") /\ snd.pc = "ip"
    /\ sentto' = IF peer[1] = 0 THEN sentto ELSE sentto \cup {<<peer[1], snd.port>>}
    /\ snd' = NoSend
    /\ UNCHANGED <<peer, roam, together, nroam, nsend>>
    /\ PeerFrame

NextPeer ==
    \/ RoamWriteIp
    \/ RoamWritePort
    \/ SendReadPort
    \/ SendReadIp

SpecPeer == InitPeer /\ [][NextPeer]_vars

----------------------------------------------------------------------------
(* The supervisor and the life of the workers: signsky_proc_start,         *)
(* signsky_proc_create, signsky_proc_reap, signsky_proc_killall and        *)
(* signsky_proc_shutdown (src/src/proc.c), main, signal_hdlr and           *)
(* signsky_last_signal (src/src/signsky.c), and the loop of each worker's  *)
(* entry function with its drop_access.  kill() and the run of signal_hdlr *)
(* in the target are one step, taken between any two steps of the target;  *)
(* signsky_last_signal is two steps, the read of sig_recv and its reset.   *)
(* A signal number is written by its name and -1 as "none".                *)

Parent == "parent"

Procs == Workers \cup {Parent}

NoSignal == "none"

\* The shared segments of signsky_proc_start: two key slots, the
\* anti-replay window and the four work queues.
Segments == {"tx", "rx", "arwin", "clear", "crypto", "encrypt", "decrypt"}

\* The order of the signsky_proc_create calls.
CreateOrder == <<"clear", "crypto", "keying", "encrypt", "decrypt">>

\* The segments each worker hands to signsky_shm_detach in its drop_access.
DropAccess(w) ==
    CASE w = "clear"   -> {"tx", "rx", "arwin", "crypto", "decrypt"}
      [] w = "crypto"  -> {"tx", "rx", "clear", "encrypt"}
      [] w = "decrypt" -> {"tx", "crypto", "encrypt"}
      [] w = "encrypt" -> {"rx", "clear", "decrypt"}
      [] w = "keying"  -> {"arwin", "clear", "crypto", "encrypt", "decrypt"}

Running(w) == wpc[w] \notin {"unborn", "exited", "reaped"}

\* signsky_signal_trap(SIGQUIT) has run: before it SIGQUIT has its default
\* action and ends the process.
Trapped(w) == Running(w) /\ wpc[w] # "start"

\* What the supervisor and the workers' loops leave alone.
SupFrame ==
    /\ UNCHANGED <<kpc, kreq, epc, estate, ciphers, rxvars>>
    /\ UNCHANGED <<ringvars, endian, tun, flight, pathvars, peervars, histvars>>

InitSuper ==
    /\ SysInit /\ RingIdle /\ DataIdle /\ PeerIdle /\ HistIdle
    /\ spc = "create" /\ ssig = NoSignal
    /\ wpc = [w \in Workers |-> "unborn"]
    /\ wsig = [w \in Workers |-> NoSignal]
    /\ sigrecv = [p \in Procs |-> NoSignal]
    /\ proclist = {}
    /\ attached = [p \in Procs |-> IF p = Parent THEN Segments ELSE {}]

\* signsky_proc_create: fork(); the child has the parent's memory, its
\* attachments and its sig_recv, and is entered in the list.
ProcCreate ==
    /\ spc = "create"
    /\ LET w == CreateOrder[Cardinality(proclist) + 1] IN
         /\ wpc' = [wpc EXCEPT ![w] = "start"]
         /\ attached' = [attached EXCEPT ![w] = attached[Parent]]
         /\ sigrecv' = [sigrecv EXCEPT ![w] = sigrecv[Parent]]
         /\ proclist' = proclist \cup {w}
    /\ spc' = IF Cardinality(proclist) + 1 = Len(CreateOrder) THEN "detach" ELSE "create"
    /\ UNCHANGED <<ssig, wsig, key, nreq, died>>
    /\ SupFrame

\* signsky_proc_start after the forks: signsky_shm_detach of all seven.
ProcStartDetach ==
    /\ spc = "detach"
    /\ attached' = [attached EXCEPT ![Parent] = {}]
    /\ spc' = "read"
    /\ UNCHANGED <<ssig, wpc, wsig, sigrecv, proclist, key, nreq, died>>
    /\ SupFrame

\* main: signsky_last_signal, sig = sig_recv
MainLastSignalRead ==
    /\ spc = "read"
    /\ ssig' = sigrecv[Parent]
    /\ spc' = "reset"
    /\ UNCHANGED <<wpc, wsig, sigrecv, proclist, attached, key, nreq, died>>
    /\ SupFrame

\* main: signsky_last_signal, sig_recv = -1, and the switch on the signal;
\* without a signal sleep(1) and the next turn of the loop.
MainLastSignalReset ==
    /\ spc = "reset"
    /\ sigrecv' = [sigrecv EXCEPT ![Parent] = NoSignal]
    /\ spc' = CASE ssig \in {"SIGINT", "SIGHUP"} -> "killall"
                [] ssig = "SIGCHLD" -> "reap"
                [] OTHER -> "read"
    /\ ssig' = NoSignal
    /\ UNCHANGED <<wpc, wsig, proclist, attached, key, nreq, died>>
    /\ SupFrame

\* signsky_proc_reap: waitpid(-1, .., WNOHANG) until no child is left to
\* collect; every collected process leaves the list.
signsky_proc_reap(pcs) == [w \in Workers |-> IF pcs[w] = "exited" THEN "reaped" ELSE pcs[w]]

\* main on SIGCHLD: running = 0, signsky_proc_reap()
MainReap ==
    /\ spc = "reap"
    /\ wpc' = signsky_proc_reap(wpc)
    /\ proclist' = {w \in proclist : wpc[w] # "exited"}
    /\ spc' = "killall"
    /\ UNCHANGED <<ssig, wsig, sigrecv, attached, key, nreq, died>>
    /\ SupFrame

\* signsky_proc_killall(SIGQUIT): kill() of every process of the list.  A
\* worker that has not trapped SIGQUIT yet is ended by it, the keying
\* worker blocked in poll() leaves it with EINTR, a collected-to-be child
\* is left as it is.
ShutdownKillall ==
    /\ spc = "killall"
    /\ wpc' = [w \in Workers |->
                 IF w \in proclist /\ wpc[w] = "start" THEN "exited"
                 ELSE IF w \in proclist /\ w = "keying" /\ wpc[w] = "poll" THEN "read"
                 ELSE wpc[w]]
    /\ sigrecv' = [p \in Procs |->
                 IF p \in proclist /\ Trapped(p) THEN "SIGQUIT"
                 ELSE IF p = Parent /\ \E w \in proclist : wpc[w] = "start" THEN "SIGCHLD"
                 ELSE sigrecv[p]]
    /\ spc' = "empty"
    /\ UNCHANGED <<ssig, wsig, proclist, attached, key, nreq, died>>
    /\ SupFrame

\* signsky_proc_shutdown: while (!LIST_EMPTY(&proclist)); main returns
\* once the list is empty.
ShutdownListEmpty ==
    /\ spc = "empty"
    /\ spc' = IF proclist = {} THEN "done" ELSE "wait"
    /\ UNCHANGED <<ssig, wpc, wsig, sigrecv, proclist, attached, key, nreq, died>>
    /\ SupFrame

\* signsky_proc_shutdown: signsky_proc_reap() inside the loop
ShutdownReap ==
    /\ spc = "wait"
    /\ wpc' = signsky_proc_reap(wpc)
    /\ proclist' = {w \in proclist : wpc[w] # "exited"}
    /\ spc' = "empty"
    /\ UNCHANGED <<ssig, wsig, sigrecv, attached, key, nreq, died>>
    /\ SupFrame

\* The operator sends SIGINT or SIGHUP to the supervisor: signal_hdlr.  Once
\* main has left its loop sig_recv is not read again, and the signal is
\* left out.
UserSignal ==
    /\ spc \in {"create", "detach", "read", "reset"}
    /\ \E s \in {"SIGINT", "SIGHUP"} : sigrecv' = [sigrecv EXCEPT ![Parent] = s]
    /\ UNCHANGED <<spc, ssig, wpc, wsig, proclist, attached, key, nreq, died>>
    /\ SupFrame

\* The start of an entry function: drop_access and
\* signsky_signal_trap(SIGQUIT).
WorkerStart(w) ==
    /\ wpc[w] = "start"
    /\ attached' = [attached EXCEPT ![w] = attached[w] \ DropAccess(w)]
    /\ wpc' = [wpc EXCEPT ![w] = "read"]
    /\ UNCHANGED <<spc, ssig, wsig, sigrecv, proclist, key, nreq, died>>
    /\ SupFrame

\* The loop of an entry function: signsky_last_signal, sig = sig_recv
WorkerLastSignalRead(w) ==
    /\ wpc[w] = "read"
    /\ wsig' = [wsig EXCEPT ![w] = sigrecv[w]]
    /\ wpc' = [wpc EXCEPT ![w] = "reset"]
    /\ UNCHANGED <<spc, ssig, sigrecv, proclist, attached, key, nreq, died>>
    /\ SupFrame

\* encrypt_install_pending and decrypt_install_pending, as one step: a
\* PENDING slot is installed and left EMPTY.
InstallPending(k, w) ==
    LET slot == IF w = "encrypt" THEN "tx" ELSE "rx" IN
    IF w \in {"encrypt", "decrypt"} /\ k[slot].state = SIGNSKY_KEY_PENDING
      THEN [k EXCEPT ![slot].state = SIGNSKY_KEY_EMPTY]
      ELSE k

\* signsky_last_signal, sig_recv = -1, and the rest of the turn: on SIGQUIT
\* running = 0 and exit(0), of which the supervisor hears by SIGCHLD; else
\* the turn's work, after which the keying worker goes on to poll().
WorkerLastSignalReset(w) ==
    /\ wpc[w] = "reset"
    /\ IF wsig[w] = "SIGQUIT"
         THEN /\ wpc' = [wpc EXCEPT ![w] = "exited"]
              /\ sigrecv' = [sigrecv EXCEPT ![w] = NoSignal, ![Parent] = "SIGCHLD"]
              /\ UNCHANGED key
         ELSE /\ wpc' = [wpc EXCEPT ![w] = IF w = "keying" THEN "prepoll" ELSE "read"]
              /\ sigrecv' = [sigrecv EXCEPT ![w] = NoSignal]
              /\ key' = InstallPending(key, w)
    /\ wsig' = [wsig EXCEPT ![w] = NoSignal]
    /\ UNCHANGED <<spc, ssig, proclist, attached, nreq, died>>
    /\ SupFrame

\* signsky_keying_entry: poll(&pfd, 1, -1) starts to block
KeyingPollBlock ==
    /\ wpc["keying"] = "prepoll"
    /\ wpc' = [wpc EXCEPT !["keying"] = "poll"]
    /\ UNCHANGED <<spc, ssig, wsig, sigrecv, proclist, attached, key, nreq, died>>
    /\ SupFrame

\* A request arrives on the keying socket: poll() returns with POLLIN and
\* keying_handle_request calls keying_install for io->tx.
KeyingRequest ==
    /\ wpc["keying"] = "poll"
    /\ wpc' = [wpc EXCEPT !["keying"] = "install_tx"]
    /\ UNCHANGED <<spc, ssig, wsig, sigrecv, proclist, attached, key, nreq, died>>
    /\ SupFrame

\* keying_install: the wait for an EMPTY slot, which looks at no signal,
\* and the hand-over that leaves it PENDING; io->tx first, io->rx second.
KeyingInstallSlot ==
    /\ wpc["keying"] \in {"install_tx", "install_rx"}
    /\ LET slot == IF wpc["keying"] = "install_tx" THEN "tx" ELSE "rx" IN
         /\ key[slot].state = SIGNSKY_KEY_EMPTY
         /\ key' = [key EXCEPT ![slot].state = SIGNSKY_KEY_PENDING]
    /\ wpc' = [wpc EXCEPT !["keying"] = IF wpc["keying"] = "install_tx" THEN "install_rx" ELSE "read"]
    /\ UNCHANGED <<spc, ssig, wsig, sigrecv, proclist, attached, nreq, died>>
    /\ SupFrame

\* fatal() in a worker: exit(1), of which the supervisor hears by SIGCHLD.
WorkerFatal(w) ==
    /\ Running(w)
    /\ wpc' = [wpc EXCEPT ![w] = "exited"]
    /\ wsig' = [wsig EXCEPT ![w] = NoSignal]
    /\ sigrecv' = [sigrecv EXCEPT ![w] = NoSignal, ![Parent] = "SIGCHLD"]
    /\ UNCHANGED <<spc, ssig, proclist, attached, key, nreq, died>>
    /\ SupFrame

\* The steps of the supervisor and of one worker, for the scheduler.
SupStep ==
    \/ MainLastSignalRead
    \/ MainLastSignalReset
    \/ MainReap
    \/ ShutdownKillall
    \/ ShutdownListEmpty
    \/ ShutdownReap

WorkerStep(w) ==
    \/ WorkerStart(w)
    \/ WorkerLastSignalRead(w)
    \/ WorkerLastSignalReset(w)
    \/ (w = "keying" /\ KeyingPollBlock)
    \/ (w = "keying" /\ KeyingInstallSlot)

\* The start: the forks, the workers' drop_access, the supervisor's
\* detach, and the operator's signal that a child inherits in sig_recv.
NextAttach ==
    \/ ProcCreate
    \/ ProcStartDetach
    \/ UserSignal
    \/ \E w \in Workers : WorkerStart(w)

SpecAttach == InitSuper /\ [][NextAttach]_vars

\* The supervisor in the loop of main and every worker forked and in its
\* loop, but for the one forked last, which may not have run yet.
InitRun ==
    /\ SysInit /\ RingIdle /\ DataIdle /\ PeerIdle /\ HistIdle
    /\ spc = "read" /\ ssig = NoSignal
    /\ \E last \in {"start", "read"} :
         wpc = [w \in Workers |-> IF w = CreateOrder[Len(CreateOrder)] THEN last ELSE "read"]
    /\ wsig = [w \in Workers |-> NoSignal]
    /\ sigrecv = [p \in Procs |-> NoSignal]
    /\ proclist = Workers
    /\ attached = [p \in Procs |->
                     IF p = Parent THEN {}
                     ELSE IF wpc[p] = "start" THEN Segments
                     ELSE Segments \ DropAccess(p)]

NextSuper ==
    \/ MainLastSignalRead
    \/ MainLastSignalReset
    \/ MainReap
    \/ ShutdownKillall
    \/ ShutdownListEmpty
    \/ ShutdownReap
    \/ UserSignal
    \/ \E w \in Workers : WorkerStart(w)
    \/ \E w \in Workers : WorkerLastSignalRead(w)
    \/ \E w \in Workers : WorkerLastSignalReset(w)
    \/ KeyingPollBlock
    \/ KeyingRequest
    \/ KeyingInstallSlot
    \/ \E w \in Workers : WorkerFatal(w)

SpecSuper == InitRun /\ [][NextSuper]_vars

\* The scheduler is fair to the supervisor and to every worker; signals of
\* the operator, keying requests and fatal() may or may not happen.
FairSuper ==
    /\ SpecSuper
    /\ WF_vars(SupStep)
    /\ \A w \in Workers : WF_vars(WorkerStep(w))

----------------------------------------------------------------------------
(* The anti-replay window on its own: decrypt_arwin_check and              *)
(* decrypt_arwin_update (src/src/decrypt.c) applied to one header after    *)
(* the other, the update after every check that accepted, as               *)
(* decrypt_with_slot does for a packet that verifies.                      *)

\* Packet numbers of the headers: the reserved 0, neighbours, numbers 63 and
\* 64 above them, and one more than 10^6 above all others.
WinPns == {0, 1, 2, 3, 66, 67, 130, 1000131}

\* A header in host order with packet number n; its sequence field is the
\* low half of the packet number unless off by one.
WinHdr(n, off) ==
    [pn |-> U64OfNat(n), seq |-> IF off THEN U32OfNat(n + 1) ELSE Low32(U64OfNat(n))]

InitArwin ==
    /\ SysInit /\ RingIdle /\ DataIdle /\ PeerIdle /\ SupIdle
    /\ txpns = <<>> /\ txlog = <<>> /\ kgot = "none" /\ dropped = {} /\ inq = <<>>
    /\ wtest = [hdr |-> WinHdr(0, FALSE), before |-> NoArwin, ret |-> -1,
                after |-> NoArwin]

\* What the window functions leave alone.
ArwinFrame ==
    /\ UNCHANGED <<dpc, dloc, dstate, peer, rxstat, clear, npkt, accepted, rxlast, died>>
    /\ UNCHANGED keyvars
    /\ UNCHANGED <<ringvars, endian, tun, flight, pathvars, peervars, supvars>>
    /\ UNCHANGED <<txpns, txlog, kgot, dropped, inq>>

\* decrypt_arwin_check returned 0 and the packet verified:
\* decrypt_arwin_update.
ArwinAccept ==
    /\ \E n \in WinPns : \E off \in BOOLEAN :
         LET hdr == WinHdr(n, off) IN
         /\ decrypt_arwin_check(arwin, hdr) = 0
         /\ arwin' = decrypt_arwin_update(arwin, hdr).aw
         /\ wtest' = [hdr |-> hdr, before |-> arwin, ret |-> 0, after |-> arwin']
    /\ ArwinFrame

\* decrypt_arwin_check returned -1: decrypt_with_slot returns.
ArwinReject ==
    /\ \E n \in WinPns : \E off \in BOOLEAN :
         LET hdr == WinHdr(n, off) IN
         /\ decrypt_arwin_check(arwin, hdr) = -1
         /\ wtest' = [hdr |-> hdr, before |-> arwin, ret |-> -1, after |-> arwin]
    /\ UNCHANGED arwin
    /\ ArwinFrame

NextArwin ==
    \/ ArwinAccept
    \/ ArwinReject

SpecArwin == InitArwin /\ [][NextArwin]_vars

----------------------------------------------------------------------------
(* The two window checks: crypto_arwin_check in the crypto worker          *)
(* (src/src/crypto.c) when a datagram is received, decrypt_arwin_check     *)
(* and decrypt_arwin_update in the decrypt worker (src/src/decrypt.c) when *)
(* it is processed, with up to MaxInq datagrams waiting in between.        *)

MaxInq == 2

\* Packet numbers on the wire: the reserved 0, the first three, and one
\* that lies SIGNSKY_ARWIN_SIZE + 1023 beyond the second and less beyond
\* the third.
EagerPns == {0, 1, 2, 3, 2 + SIGNSKY_ARWIN_SIZE + ArwinQueueSlack}

\* Datagrams of the peer under the installed SA, one with a sequence field
\* that is not the low half of its packet number, one cut short.
EagerPackets ==
    {SealedPacket(SpiA, Secret(1), pn, U32OfNat(pn), 0, IPPROTO_IP, FullLen, PeerAddr) :
        pn \in EagerPns}
    \cup {SealedPacket(SpiA, Secret(1), 1, U32OfNat(2), 0, IPPROTO_IP, FullLen, PeerAddr),
          SealedPacket(SpiA, Secret(1), 1, U32OfNat(1), 0, IPPROTO_IP,
                       HdrLen + TailLen + CIPHER_AES_GCM_TAG_SIZE - 1, PeerAddr)}

InitEager ==
    /\ RingIdle /\ DataIdle /\ PeerIdle /\ SupIdle
    /\ txpns = <<>> /\ txlog = <<>> /\ kgot = "none" /\ wtest = "none" /\ dropped = {} /\ inq = <<>>
    /\ key = [tx |-> NoKey, rx |-> NoKey]
    /\ kpc = "poll" /\ kreq = NoRequest /\ nreq = 0
    /\ epc = "loop" /\ estate = NoSA
    /\ dpc = "loop" /\ dloc = NoDloc
    /\ dstate = [slot_1 |-> RxSA, slot_2 |-> NoSA]
    /\ ciphers = [encrypt |-> <<>>, decrypt |-> <<SharedCipher>>]
    /\ arwin = NoArwin
    /\ peer = PeerAddr
    /\ rxstat = [spi |-> SpiA, pkt |-> 0, bytes |-> 0]
    /\ clear = RingInitValue(ClearElm)
    /\ npkt = 0
    /\ died = [w \in Workers |-> "none"]
    /\ accepted = <<>>
    /\ rxlast = NoLast

\* One turn of the loop of crypto_recv_packets: the datagram is dropped by
\* the eager check or queued for the decrypt worker.
EagerRecv ==
    /\ Alive("crypto") /\ Len(inq) < MaxInq
    /\ \E dgram \in EagerPackets :
         LET r == crypto_recv_one(FreshPacket, dgram, arwin)
         IN  /\ r.act # "fatal"
             /\ IF r.act = "release"
                  THEN dropped' = dropped \cup {r.pkt} /\ UNCHANGED inq
                  ELSE inq' = Append(inq, r.pkt) /\ UNCHANGED dropped
    /\ UNCHANGED <<txpns, txlog, kgot, wtest>>
    /\ UNCHANGED <<sysvars, ringvars, endian, tun, flight, pathvars, peervars, supvars>>

\* The decrypt worker takes the next datagram: decrypt_packet_process.
EagerDecrypt ==
    /\ Alive("decrypt") /\ inq # <<>>
    /\ LET r == decrypt_packet_process(Head(inq), dstate)
           w == r.w
       IN  /\ arwin' = w.arwin
           /\ peer' = w.peer
           /\ clear' = w.clear
           /\ accepted' = accepted \o w.updates
           /\ rxlast' = [pkt |-> Head(inq), via |-> r.via, queued |-> w.queued,
                         updates |-> w.updates, st |-> dstate, arwin |-> arwin]
           /\ IF w.corrupt
                THEN /\ Fatal("decrypt", "window corrupt")
                     /\ UNCHANGED <<dstate, ciphers, rxstat>>
                ELSE IF r.via = "slot_2"
                  THEN /\ rxstat' = [rxstat EXCEPT !.spi = dstate.slot_2.spi]
                       /\ ciphers' = [ciphers EXCEPT !.decrypt =
                                signsky_cipher_cleanup(@, dstate.slot_1.cipher)]
                       /\ dstate' = PromotePending(dstate)
                       /\ UNCHANGED died
                  ELSE UNCHANGED <<dstate, ciphers, rxstat, died>>
    /\ inq' = Tail(inq)
    /\ UNCHANGED <<txpns, txlog, kgot, wtest, dropped>>
    /\ UNCHANGED <<dpc, dloc, key, kpc, kreq, nreq, epc, estate, npkt>>
    /\ UNCHANGED <<ringvars, endian, tun, flight, pathvars, peervars, supvars>>

NextEager ==
    \/ EagerRecv
    \/ EagerDecrypt

SpecEager == InitEager /\ [][NextEager]_vars

----------------------------------------------------------------------------
(* Claims about the ring.                                                  *)

Range(s) == {s[i] : i \in DOMAIN s}

Quiescent == \A u \in RingUsers : rpc[u] = "idle"

IsPowerOfTwo(n) == \E k \in 0..30 : n = 2^k

\* Items a consumer has read out of its claimed slot and is about to return.
InConsumerHands == {rloc[c].ptr : c \in {u \in Consumers : rpc[u] = "d_pub"}}

\* C1: the items returned by dequeues are items whose enqueue succeeded, none
\* is returned twice, the dequeues never outnumber the enqueues, and an
\* enqueued item that no dequeue has returned yet is still held by the ring
\* (in a data slot) or by the consumer that is returning it.
C1_DequeuedFromEnqueued ==
    /\ \A i, j \in DOMAIN returned : i # j => returned[i] # returned[j]
    /\ \A i \in DOMAIN returned : returned[i] \in Range(queued)
    /\ Len(returned) <= Len(queued)
    /\ \A x \in Range(queued) \ Range(returned) :
            \/ x \in InConsumerHands
            \/ \E s \in DOMAIN ring.data : ring.data[s] = x

\* C2: signsky_ring_queue returns -1 exactly when producer.head - consumer.tail
\* (as it read them) equals the capacity, so a producer goes on to claim a slot
\* only below capacity and the claimed-but-not-dequeued slots never exceed it.
C2_FullExactlyAtCapacity ==
    /\ \A p \in Producers :
            rpc[p] \in {"q_cas", "q_write", "q_pub"} =>
                U32Sub(rloc[p].head, rloc[p].tail) # U32OfNat(ring.elm)
    /\ \A p \in Producers :
            (rpc[p] = "idle" /\ rloc[p].ret = "full") =>
                U32Sub(rloc[p].head, rloc[p].tail) = U32OfNat(ring.elm)
    /\ LET used == U32Sub(ring.producer.head, ring.consumer.tail)
       IN  used[1] = 0 /\ used[2] <= ring.elm

\* C3: at a quiescent point pending + available is the capacity, both computed
\* as signsky_ring_pending and signsky_ring_available compute them.
C3_PendingPlusAvailable ==
    Quiescent =>
        SizeAdd(signsky_ring_pending(ring), signsky_ring_available(ring))
            = SizeOfNat(ring.elm)

\* C4: signsky_ring_init accepts elm iff it is a power of two in 1..4096, and
\* an accepted ring has all four cursors at zero.
C4_InitAcceptsIffValid ==
    /\ ringst = "ok" =>
            /\ IsPowerOfTwo(elmArg) /\ 1 <= elmArg /\ elmArg <= DataLen
            /\ ring.producer = [head |-> U32Zero, tail |-> U32Zero]
            /\ ring.consumer = [head |-> U32Zero, tail |-> U32Zero]
    /\ ringst = "fatal" =>
            ~(IsPowerOfTwo(elmArg) /\ 1 <= elmArg /\ elmArg <= DataLen)

----------------------------------------------------------------------------
(* Claims about the key hand-off and the receive path.                     *)

KeySlots == {"tx", "rx"}

KeyStateRing ==
    {<<SIGNSKY_KEY_EMPTY, SIGNSKY_KEY_GENERATING>>,
     <<SIGNSKY_KEY_GENERATING, SIGNSKY_KEY_PENDING>>,
     <<SIGNSKY_KEY_PENDING, SIGNSKY_KEY_INSTALLING>>,
     <<SIGNSKY_KEY_INSTALLING, SIGNSKY_KEY_EMPTY>>}

SwapFatals ==
    {"failed to swap key state to generating", "failed to swap key state to pending",
     "failed to swap key state to installing", "failed to swap key state to empty"}

\* C5: with the keying worker as the only writer of a key slot and one
\* data-plane worker as its only reader, the state of each slot changes only
\* EMPTY -> GENERATING -> PENDING -> INSTALLING -> EMPTY, and no worker ever
\* dies of a "failed to swap key state" fatal.
C5_KeyStateRing ==
    /\ [][\A s \in KeySlots :
            key'[s].state # key[s].state =>
                <<key[s].state, key'[s].state>> \in KeyStateRing]_vars
    /\ [](\A w \in Workers : died[w] \notin SwapFatals)

\* Both slots have been handed over once and a second key waits in the RX slot.
C5_Witness ==
    /\ estate.cipher # NULL
    /\ dstate.slot_1.cipher # NULL
    /\ key.rx.state = SIGNSKY_KEY_PENDING
    /\ nreq = 2

\* C6: whenever an install has completed, INSTALLING -> EMPTY, on the TX
\* path (encrypt_install_pending) or on the RX path (signsky_key_install),
\* the 32 key bytes of the shared slot are zero: an EMPTY slot holds no key.
C6_KeyWipedAfterInstall ==
    \A s \in KeySlots :
        key[s].state = SIGNSKY_KEY_EMPTY => key[s].key = ZeroKey

\* Both workers have installed a key and both slots are EMPTY again.
C6_Witness ==
    /\ estate.cipher # NULL
    /\ dstate.slot_1.cipher # NULL
    /\ key.tx.state = SIGNSKY_KEY_EMPTY
    /\ key.rx.state = SIGNSKY_KEY_EMPTY
    /\ epc = "loop" /\ dpc = "loop"

\* The header of the last packet as decrypt_packet_process reads it.
LastHdr == HostOrder(rxlast.pkt)

\* The window updates that happened before the last packet was processed.
AcceptedBefore == SubSeq(accepted, 1, Len(accepted) - Len(rxlast.updates))

\* The last packet verifies under the SA that slot sa held when it came in.
LastVerifiesUnder(sa) ==
    /\ rxlast.st[sa].cipher # NULL
    /\ signsky_packet_crypto_checklen(rxlast.pkt) = 0
    /\ LastHdr.spi = rxlast.st[sa].spi
    /\ Low32(LastHdr.pn) = LastHdr.seq
    /\ signsky_cipher_decrypt(ciphers.decrypt[rxlast.st[sa].cipher],
            <<rxlast.st[sa].salt, LastHdr.pn>>,
            <<rxlast.st[sa].spi, LastHdr.pn>>, rxlast.pkt).ret = 0

\* The last packet repeats a packet number that SA sa had accepted already.
LastIsReplayOf(sa) ==
    /\ LastVerifiesUnder(sa)
    /\ \E i \in DOMAIN AcceptedBefore :
            AcceptedBefore[i] = <<rxlast.st[sa].cipher, LastHdr.pn>>

\* Packets waiting in the clear queue.
ClearPending == U32ToNat(U32Sub(clear.producer.tail, clear.consumer.head))

LastIsFirstOfPending ==
    /\ rxlast.via # "none"
    /\ rxlast.st.slot_1.cipher # NULL
    /\ rxlast.st.slot_1.spi = SpiA
    /\ rxlast.st.slot_2.spi = SpiB
    /\ LastVerifiesUnder("slot_2")
    /\ LastHdr.pn = U64One
    /\ rxlast.pkt.pad = 0 /\ rxlast.pkt.next = IPPROTO_IP
    /\ \A i \in DOMAIN AcceptedBefore :
            AcceptedBefore[i][1] # rxlast.st.slot_2.cipher

\* C8: with a primary SA at SPI A that has accepted any number of packets,
\* once an SA at SPI B is pending, the first authentic SPI B packet (packet
\* number 1) is accepted through the pending slot and promotes it.
C8_FirstPendingPacketAccepted ==
    LastIsFirstOfPending =>
        /\ rxlast.via = "slot_2"
        /\ rxlast.queued

\* The trailer of the wire format, as encrypt_packet_process writes it.
LastHasPeerTrailer == rxlast.pkt.pad = 0 /\ rxlast.pkt.next = IPPROTO_IPV4

\* The last packet came in while an SA was pending under which nothing was
\* accepted yet, and it is an authentic packet of the primary SA that the
\* anti-replay window lets pass.
LastIsPrimaryWhilePending ==
    /\ rxlast.via # "none"
    /\ rxlast.st.slot_2.cipher # NULL
    /\ rxlast.st.slot_1.spi = SpiA
    /\ rxlast.st.slot_2.spi = SpiB
    /\ LastVerifiesUnder("slot_1")
    /\ decrypt_arwin_check(rxlast.arwin, LastHdr) = 0
    /\ LastHasPeerTrailer
    /\ \A i \in DOMAIN AcceptedBefore :
            AcceptedBefore[i][1] # rxlast.st.slot_2.cipher

\* C9: while an SA at SPI B is pending and no SPI B packet was accepted,
\* every authentic, non-replayed packet of the primary SPI A is still
\* accepted and delivered to the clear queue.
C9_PrimaryServedWhilePending ==
    LastIsPrimaryWhilePending =>
        /\ rxlast.via = "slot_1"
        /\ rxlast.queued

\* The step is decrypt_packet_process ending with a packet that succeeded
\* under the pending SA.
PendingSucceeded ==
    /\ dpc = "process" /\ dpc' = "loop"
    /\ rxlast'.via = "slot_2"

\* The slots that hold an SA.
Installed(st) == {sa \in {"slot_1", "slot_2"} : st[sa].cipher # NULL}

RxInstallStep == dpc = "body" /\ dpc' = "done"

\* C11: a received key is installed into slot_1 only when slot_1 has no
\* cipher, and into slot_2 otherwise, the other slot being left alone; so in
\* every state of the decrypt worker a cipher in slot_2 implies one in slot_1.
C11_InstallTargetsPendingWhenPrimarySet ==
    /\ [][RxInstallStep =>
            /\ dloc.sa = "slot_1" <=> dstate.slot_1.cipher = NULL
            /\ dloc.sa = "slot_2" <=> dstate.slot_1.cipher # NULL
            /\ dstate'[dloc.sa].cipher # NULL
            /\ dstate'[dloc.sa].cipher # dstate[dloc.sa].cipher
            /\ \A sa \in {"slot_1", "slot_2"} \ {dloc.sa} :
                    dstate'[sa] = dstate[sa]]_vars
    /\ [](dstate.slot_2.cipher # NULL => dstate.slot_1.cipher # NULL)

\* A second key has been installed while slot_1 held the first one.
C11_Witness ==
    /\ dpc = "done"
    /\ dloc.sa = "slot_2"
    /\ dstate.slot_1.cipher # NULL
    /\ dstate.slot_2.cipher # NULL
    /\ dstate.slot_2.spi # dstate.slot_1.spi

----------------------------------------------------------------------------
(* Claims about the data path.                                             *)

\* C12: for every plaintext length n with 12 <= n <= 1500, a packet that
\* enters through the clear worker, is processed by encrypt_packet_process
\* under a TX SA and then by decrypt_packet_process under an RX SA with the
\* same key, salt and SPI is accepted and reaches the clear queue with the
\* same payload and length n, and no worker aborts on the way: no worker has
\* died, the buffer was not dropped, and once it is through it sits in the
\* clear queue with the payload and the length that were read.
C12_RoundTrip ==
    /\ \A w \in Workers : died[w] = "none"
    /\ flight.stage \notin {"released", "aborted"}
    /\ flight.stage = "clear_queue" =>
           /\ flight.pkt.length = tun.n
           /\ flight.pkt.data = tun.data
           /\ flight.pkt.target = SIGNSKY_PROC_CLEAR
           /\ RingData(clear, 0) = flight.pkt

\* The buffers that sit in a queue of packets.
QueuedBufs(r) == [i \in DOMAIN RingContents(r) |-> RingContents(r)[i].buf]

\* How often buffer b occurs in the sequence s.
Occurs(s, b) == Cardinality({i \in DOMAIN s : s[i] = b})

\* The number of places that hold buffer b: the pool, the four work queues,
\* the workers.
Places(b) ==
    Occurs(RingContents(pool), b)
    + Occurs(QueuedBufs(wq.encrypt), b) + Occurs(QueuedBufs(wq.crypto), b)
    + Occurs(QueuedBufs(wq.decrypt), b) + Occurs(QueuedBufs(clear), b)
    + Cardinality({w \in PathWorkers : held[w] # NoPacket /\ held[w].buf = b})

KeylessProcess ==
    /\ held.encrypt # NoPacket /\ held'.encrypt = NoPacket
    /\ estate.cipher = NULL

\* C15: while no TX key has ever been installed in the encrypt worker, every
\* packet it dequeues from the encrypt queue is released back to the pool and
\* nothing is ever enqueued on the crypto queue, whose pending count stays 0.
C15_KeylessDrop ==
    /\ [][KeylessProcess =>
            /\ txlast'.act = "release"
            /\ Occurs(RingContents(pool'), held.encrypt.buf) = 1
            /\ Occurs(RingContents(pool), held.encrypt.buf) = 0
            /\ wq'.crypto = wq.crypto
            /\ estate' = estate]_vars
    /\ [](estate.cipher = NULL => signsky_ring_pending(wq.crypto) = SizeZero)

\* Without a key the encrypt worker was handed the 64-byte packet and let
\* go of it.
C15_Witness ==
    /\ estate.cipher = NULL
    /\ txlast.act = "release"
    /\ txlast.pkt.length = 64
    /\ held.encrypt = NoPacket
    /\ Occurs(RingContents(pool), txlast.pkt.buf) = 1

\* C20: when the packet pool is empty, signsky_packet_get reports the empty
\* result without faulting, the clear and crypto workers read into their
\* scratch buffer, drop that packet and go on; the scratch buffer is never
\* queued and never put into the pool: no worker dies in signsky_packet_get,
\* and the queues and the pool hold buffers of the pool only.
C20_PoolEmptyNoFault ==
    /\ \A w \in {"clear", "crypto"} : died[w] # "fault in signsky_packet_get"
    /\ \A i \in DOMAIN RingContents(pool) : RingContents(pool)[i] \in Buffers
    /\ \A q \in {"encrypt", "crypto", "decrypt"} :
         \A i \in DOMAIN QueuedBufs(wq[q]) : QueuedBufs(wq[q])[i] \in Buffers

\* C16: peer address updates are atomic as a pair: every (ip, port) that the
\* crypto worker hands to sendto is a pair that was stored together, the
\* configured peer or the source address of one accepted packet, never the
\* ip of one address with the port of another.
C16_PeerPairAtomic == sentto \subseteq together

----------------------------------------------------------------------------
(* Claims about the supervisor and the workers' lives.                     *)

\* The segments each worker uses: its key slot, the anti-replay window in
\* decrypt and crypto, the queue it consumes and the queue it produces to.
SegmentsUsed(w) ==
    CASE w = "keying"  -> {"tx", "rx"}
      [] w = "encrypt" -> {"tx", "encrypt", "crypto"}
      [] w = "decrypt" -> {"rx", "arwin", "decrypt", "clear"}
      [] w = "crypto"  -> {"arwin", "crypto", "decrypt"}
      [] w = "clear"   -> {"clear", "encrypt"}

\* C19: after its drop-access step, and for the rest of its life, every
\* worker has attached only the shared segments it uses (the TX key slot
\* only in keying and encrypt, the RX key slot only in keying and decrypt,
\* the anti-replay window only in decrypt and crypto, each work queue only
\* in its producer and its consumer), and the supervisor has none attached
\* after forking.
C19_AttachedOnlyUsed ==
    /\ \A w \in Workers : Trapped(w) => attached[w] \subseteq SegmentsUsed(w)
    /\ spc \notin {"create", "detach"} => attached[Parent] = {}

\* C17: shutdown liveness.  Once the supervisor has observed SIGINT,
\* SIGHUP or SIGCHLD and is about to send SIGQUIT to every remaining
\* worker, then under fair scheduling every worker eventually exits and
\* the wait loop of signsky_proc_shutdown terminates, whatever each
\* worker was doing when the signal arrived.
C17_ShutdownTerminates == (spc = "killall") ~> (spc = "done" /\ proclist = {})

\* No worker that has exited runs again.
NoRestart ==
    [][\A w \in Workers : wpc[w] \in {"exited", "reaped"} => wpc'[w] \in {"exited", "reaped"}]_vars

\* C18: fail closed.  If any worker exits, the supervisor eventually
\* observes it, terminates all other workers and exits itself; no worker
\* is ever restarted, and the system never keeps running indefinitely with
\* a worker missing.
C18_FailClosed ==
    /\ NoRestart
    /\ (\E w \in Workers : wpc[w] = "exited") ~> (spc = "done")

----------------------------------------------------------------------------
(* Claims about the trailer, the anti-replay window and the packet number. *)

\* C30: the trailer check of the decrypt worker accepts a verified packet
\* iff its pad length is 0 and its next-protocol byte is the IPv4 value that
\* encrypt_packet_process writes; any other trailer is dropped and every
\* trailer written by the encrypt worker passes.
C30_TrailerCheck ==
    (/\ rxlast.via # "none"
     /\ LastVerifiesUnder("slot_1")
     /\ decrypt_arwin_check(rxlast.arwin, LastHdr) = 0)
        => ((rxlast.via = "slot_1") <=> LastHasPeerTrailer)

\* A 64-bit value below 2^32 as a number.
WinNat(a) == a[3] * LimbBase + a[4]

WinPn == WinNat(wtest.hdr.pn)

WinLast == WinNat(wtest.before.last)

\* C27: given that the low half of the packet number is the header's
\* sequence field, decrypt_arwin_check accepts iff pn > last, or pn # 0 and
\* last - pn < 64 and bit 63 - (last - pn) is clear: pn = 0 is always
\* rejected, pn = last - 63 is accepted once and rejected once its bit is
\* set, pn = last - 64 is always rejected.
C27_ArwinCheck ==
    Low32(wtest.hdr.pn) = wtest.hdr.seq =>
        ((wtest.ret = 0) <=>
            \/ WinPn > WinLast
            \/ /\ WinPn # 0
               /\ WinLast - WinPn < SIGNSKY_ARWIN_SIZE
               /\ (SIGNSKY_ARWIN_SIZE - 1) - (WinLast - WinPn) \notin wtest.before.bitmap)

\* The packet number last - 63 was accepted before and is now rejected.
C27_Witness ==
    /\ Low32(wtest.hdr.pn) = wtest.hdr.seq
    /\ WinLast - WinPn = SIGNSKY_ARWIN_SIZE - 1
    /\ 0 \in wtest.before.bitmap
    /\ wtest.ret = -1

\* C22: when an accepted packet number exceeds last by delta, the update
\* sets last = pn and bit 63; the bitmap is exactly 1<<63 when delta >= 64
\* and the old bitmap shifted right by delta with bit 63 set when
\* delta < 64.  When pn <= last only bit 63 - (last - pn) is set and last
\* is unchanged.
C22_ArwinUpdate ==
    wtest.ret = 0 =>
        IF WinPn > WinLast
          THEN /\ wtest.after.last = wtest.hdr.pn
               /\ wtest.after.bitmap =
                    {63} \cup {b \in 0..63 : b + (WinPn - WinLast) \in wtest.before.bitmap}
               /\ (WinPn - WinLast >= SIGNSKY_ARWIN_SIZE => wtest.after.bitmap = {63})
          ELSE /\ wtest.after.last = wtest.before.last
               /\ wtest.after.bitmap =
                    wtest.before.bitmap \cup {(SIGNSKY_ARWIN_SIZE - 1) - (WinLast - WinPn)}

\* The window moved by 63 with an older packet number in it, whose bit
\* went from 62 to the far end.
C22_Witness ==
    /\ wtest.ret = 0
    /\ WinPn - WinLast = SIGNSKY_ARWIN_SIZE - 1
    /\ wtest.before.bitmap = {62, 63}
    /\ wtest.after.bitmap = {0, 63}

\* C29: decrypt_arwin_update is only reached with a packet number that the
\* pre-check accepted against the same window state, so its "window corrupt"
\* branch is never taken and the bit it sets for pn <= last lies in 0..63.
C29_UpdateAfterCheck ==
    /\ died["decrypt"] # "window corrupt"
    /\ arwin.bitmap \subseteq 0..63
    /\ rxlast.updates # <<>> => decrypt_arwin_check(rxlast.arwin, LastHdr) = 0

\* The window was updated for a packet number below its highest one.
C29_Witness ==
    /\ rxlast.updates # <<>>
    /\ U64Lt(LastHdr.pn, rxlast.arwin.last)
    /\ ArwinBit(rxlast.arwin.last, LastHdr.pn) \in arwin.bitmap

\* The decrypt worker's window check rejects datagram p as things stand.
DecryptRejects(p) ==
    \/ signsky_packet_crypto_checklen(p) = -1
    \/ decrypt_arwin_check(arwin, HostOrder(p)) = -1

\* C28: the eager check of the crypto worker is sound with respect to the
\* authoritative one.  last never decreases, and a datagram that
\* crypto_arwin_check dropped when it was received is one that
\* decrypt_arwin_check rejects at any later time: the eager check never
\* drops a packet the decrypt worker would have accepted.
C28_EagerCheckSound ==
    /\ [](\A p \in dropped : DecryptRejects(p))
    /\ [][~U64Lt(arwin'.last, arwin.last)]_vars

\* A well-formed datagram was dropped as too old by the eager check, and
\* the window has moved on since while another datagram was waiting.
C28_Witness ==
    /\ \E p \in dropped :
         /\ signsky_packet_crypto_checklen(p) = 0
         /\ Low32(HostOrder(p).pn) = HostOrder(p).seq
         /\ U64Lt(U64Zero, HostOrder(p).pn)
    /\ Len(accepted) >= 3
    /\ inq # <<>>

-----------------------------------------------------------------------------
(* src/src/encrypt.c: the packet number of the encrypt worker under one    *)
(* installed TX SA.  No key is offered, so encrypt_install_pending at the  *)
(* head of encrypt_packet_process finds nothing to install.                *)

MaxSeqPkts == 4

\* state.seqnr right after an install (encrypt.c: state.seqnr = 1) and in
\* the last steps before the 64-bit counter is exhausted.
SeqStarts ==
    {U64One,
     <<LimbMax, LimbMax, LimbMax, LimbMax - 2>>,
     <<LimbMax, LimbMax, LimbMax, LimbMax - 1>>}

InitSeq ==
    /\ RingIdle /\ PeerIdle /\ SupIdle
    /\ txpns = <<>> /\ txlog = <<>> /\ kgot = "none" /\ wtest = "none" /\ dropped = {} /\ inq = <<>>
    /\ key = [tx |-> NoKey, rx |-> NoKey]
    /\ kpc = "poll" /\ kreq = NoRequest /\ nreq = 0
    /\ epc = "loop" /\ dpc = "loop" /\ dloc = NoDloc
    /\ \E s \in SeqStarts : estate = [TxSA(1) EXCEPT !.seqnr = s]
    /\ dstate = [slot_1 |-> NoSA, slot_2 |-> NoSA]
    /\ ciphers = [encrypt |-> <<SharedCipher>>, decrypt |-> <<>>]
    /\ arwin = NoArwin
    /\ peer = PeerAddr
    /\ rxstat = [spi |-> U32Zero, pkt |-> 0, bytes |-> 0]
    /\ clear = RingInitValue(ClearElm)
    /\ npkt = 0
    /\ died = [w \in Workers |-> "none"]
    /\ accepted = <<>>
    /\ rxlast = NoLast
    /\ endian \in {"little", "big"}
    /\ tun = [n |-> 0, data |-> 0]
    /\ flight = [stage |-> "none", pkt |-> NoPacket]
    /\ pool = RawRing
    /\ wq = [q \in {"encrypt", "crypto", "decrypt"} |-> RawRing]
    /\ held = [w \in {"clear", "encrypt", "crypto", "decrypt"} |-> NoPacket]
    /\ ntun = 0 /\ nnet = 0
    /\ txlast = "none"
    /\ qres = "none"

\* The encrypt worker takes one packet that the clear worker read from the
\* tunnel device and queued through encrypt_packet_process; txpns records the
\* packet number of every packet it hands to the crypto worker.
SeqEncrypt ==
    /\ Alive("encrypt") /\ Len(txpns) < MaxSeqPkts
    /\ \E n \in RtLens, data \in Payloads :
         LET r == encrypt_packet_process(TunnelPacket(n, data), estate,
                                         ciphers.encrypt, endian)
         IN  /\ clear_recv_one(FreshPacket, n, data).act = "queue"
             /\ tun' = [n |-> n, data |-> data]
             /\ estate' = r.st
             /\ IF r.act = "fatal"
                  THEN /\ Fatal("encrypt", "precondition failed")
                       /\ flight' = [stage |-> "aborted", pkt |-> r.pkt]
                       /\ UNCHANGED txpns
                  ELSE /\ flight' = [stage |-> IF r.act = "queue" THEN "crypto_queue"
                                                                  ELSE "released",
                                     pkt |-> r.pkt]
                       /\ txpns' = IF r.act = "queue"
                                     THEN Append(txpns, estate.seqnr)
                                     ELSE txpns
                       /\ UNCHANGED died
    /\ UNCHANGED <<key, kpc, kreq, nreq, epc, ciphers, endian>>
    /\ UNCHANGED rxvars
    /\ UNCHANGED <<txlog, kgot, wtest, dropped, inq>>
    /\ UNCHANGED <<ringvars, pathvars, peervars, supvars>>

NextSeq == SeqEncrypt

SpecSeq == InitSeq /\ [][NextSeq]_vars

\* C21: under one installed TX SA the packet numbers the encrypt worker
\* emits are strictly increasing, so none is used twice, and the counter
\* never wraps: a packet is never followed by one with a smaller or equal
\* number, and the worker has stopped before state.seqnr returns to zero.
C21_PnNeverWraps ==
    /\ \A i, j \in 1..Len(txpns) : i < j => U64Lt(txpns[i], txpns[j])
    /\ (Alive("encrypt") /\ txpns # <<>>) => estate.seqnr # U64Zero

-----------------------------------------------------------------------------
(* Claims about the ownership of the key slots.                            *)

\* Where the installer of slot s stands: encrypt_install_pending for the TX
\* slot, signsky_key_install in the decrypt worker for the RX slot.
InstallerAt(s, pos) == IF s = "tx" THEN epc = pos ELSE dpc = pos

\* The SPI and the key of the SA that the installer of slot s set up last.
InstalledPair(s) ==
    IF s = "tx"
      THEN <<estate.spi, ciphers.encrypt[estate.cipher].key>>
      ELSE <<dstate[dloc.sa].spi, ciphers.decrypt[dstate[dloc.sa].cipher].key>>

\* Cipher contexts set up from slot s so far.
Installs(s) == IF s = "tx" THEN Len(ciphers.encrypt) ELSE Len(ciphers.decrypt)

\* keying_install calls for slot s that reached GENERATING -> PENDING.
Published(s) ==
    IF kpc # "poll" /\ (s = "rx" \/ kreq.slot = "tx") THEN nreq - 1 ELSE nreq

\* C26: the keying worker stands at its memcpy and SPI store only while the
\* slot is GENERATING and the installer stands at its read and wipe only
\* while the slot is INSTALLING; key bytes and SPI of a slot change only by
\* one of these two; what is published is the pair of the request in hand;
\* what is installed is the pair in the slot; and no slot has been installed
\* more often than it has been published.
C26_SlotOwnership ==
    /\ [](\A s \in KeySlots :
            /\ (kpc = "copy" /\ kreq.slot = s) => key[s].state = SIGNSKY_KEY_GENERATING
            /\ InstallerAt(s, "body") => key[s].state = SIGNSKY_KEY_INSTALLING
            /\ Installs(s) <= Published(s))
    /\ [][\A s \in KeySlots :
            /\ (key'[s].key # key[s].key \/ key'[s].spi # key[s].spi) =>
                 \/ /\ kpc = "copy" /\ kreq.slot = s
                    /\ key[s].state = SIGNSKY_KEY_GENERATING
                    /\ key'[s].key = kreq.ss
                    /\ key'[s].spi = (IF s = "tx" THEN kreq.tx_spi ELSE kreq.rx_spi)
                 \/ /\ InstallerAt(s, "body")
                    /\ key[s].state = SIGNSKY_KEY_INSTALLING
                    /\ key'[s].key = ZeroKey
                    /\ key'[s].spi = key[s].spi
            /\ (key[s].state = SIGNSKY_KEY_GENERATING /\
                key'[s].state = SIGNSKY_KEY_PENDING) =>
                 /\ kreq.slot = s
                 /\ key[s].key = kreq.ss
                 /\ key[s].spi = (IF s = "tx" THEN kreq.tx_spi ELSE kreq.rx_spi)
            /\ (InstallerAt(s, "body") /\ InstallerAt(s, "done")') =>
                 InstalledPair(s)' = <<key[s].spi, key[s].key>>]_vars

\* Both slots have been published twice and installed twice, the second
\* time with a pair that differs from the first in SPI and in key.
C26_Witness ==
    /\ Installs("tx") = 2 /\ Installs("rx") = 2
    /\ Published("tx") = 2 /\ Published("rx") = 2
    /\ estate.spi = SpiB /\ ciphers.encrypt[2].key = Secret(2)
    /\ dstate.slot_2.spi = SpiB
    /\ ciphers.encrypt[1].live = FALSE

-----------------------------------------------------------------------------
(* Claims about the order of the ring cursors and of the items.            *)

\* Distance of cursor x from consumer.tail, modulo 2^32.
FromTail(x) == U32ToNat(U32Sub(x, ring.consumer.tail))

\* Producers that hold a claimed slot, before and after their write.
Claiming == {p \in Producers : rpc[p] \in {"q_write", "q_pub"}}

\* Consumers that hold a claimed slot, before and after their read.
Draining == {c \in Consumers : rpc[c] \in {"d_read", "d_pub"}}

CursorOrder ==
    /\ FromTail(ring.consumer.head) <= FromTail(ring.producer.tail)
    /\ FromTail(ring.producer.tail) <= FromTail(ring.producer.head)

CursorBound == FromTail(ring.producer.head) <= ring.elm

\* producer.tail stands at the oldest claim that is not yet published: every
\* claim in progress lies at or after it, no two are the same, and the one
\* that moves it next is the claimant of that very slot, after its write.
PublishInOrder ==
    /\ \A p \in Claiming :
          /\ FromTail(ring.producer.tail) <= FromTail(rloc[p].head)
          /\ FromTail(rloc[p].head) < FromTail(ring.producer.head)
    /\ \A p, q \in Claiming : p # q => rloc[p].head # rloc[q].head
    /\ \A c \in Draining :
          /\ FromTail(rloc[c].head) < FromTail(ring.consumer.head)
          /\ FromTail(rloc[c].head) < FromTail(ring.producer.tail)

\* No producer is about to write the slot that a consumer has claimed and
\* not yet read.
NoWriteUnderReader ==
    \A p \in Producers, c \in Consumers :
        (rpc[p] = "q_write" /\ rpc[c] = "d_read") =>
            RingSlot(ring, rloc[p].head) # RingSlot(ring, rloc[c].head)

\* C23: the four cursors are ordered consumer.tail <= consumer.head <=
\* producer.tail <= producer.head <= consumer.tail + capacity as distances
\* modulo 2^32; claims are published in slot order by their claimants after
\* the write, so a consumer only reads published slots; and a producer never
\* writes a slot that a consumer has claimed and not finished reading.
C23_OrderedPublish ==
    ringst = "ok" =>
        /\ CursorOrder
        /\ CursorBound
        /\ PublishInOrder
        /\ NoWriteUnderReader

\* C24: items leave the ring in the order in which their slots were claimed
\* (queued lists them in that order: slots are published in claim order):
\* the items returned so far, in the order of the consumers' slot claims,
\* are the first items queued.
C24_ClaimOrderFifo ==
    /\ Len(returned) <= Len(queued)
    /\ \A i \in 1..Len(returned) : i <= Len(queued) => returned[i] = queued[i]

-----------------------------------------------------------------------------
(* The ring with every process inside a call kept running.                 *)

\* The steps of user u inside signsky_ring_queue or signsky_ring_dequeue.
RingStep(u) ==
    IF u \in Producers
      THEN \/ QueueReadHead(u) \/ QueueReadTail(u) \/ QueueCas(u)
           \/ QueueWrite(u) \/ QueuePublish(u)
      ELSE \/ DequeueReadHead(u) \/ DequeueReadTail(u) \/ DequeueCas(u)
           \/ DequeueRead(u) \/ DequeuePublish(u)

\* The ring after one item has gone through it, its cursors about to wrap.
InitFairRing ==
    /\ SysInit
    /\ ExtIdle
    /\ ring = RingDequeueCall(RingQueueCall(RingAt(U32Max), 1).ring).ring
    /\ ringst = "ok"
    /\ elmArg = RingElm
    /\ rpc = [u \in RingUsers |-> "idle"]
    /\ rloc = [u \in RingUsers |-> NoLocals]
    /\ ntag = 1
    /\ queued = <<1>>
    /\ returned = <<1>>
    /\ fullseen = 0

\* The steps of user u once it holds a claimed slot.
ClaimedStep(u) ==
    IF u \in Producers
      THEN QueueWrite(u) \/ QueuePublish(u)
      ELSE DequeueRead(u) \/ DequeuePublish(u)

\* Every process that has claimed a slot keeps taking steps.
FairRing ==
    /\ InitFairRing
    /\ [][NextRing]_vars
    /\ \A u \in RingUsers : WF_vars(ClaimedStep(u))

\* Same-side users that hold a claim older than the one of u and have not
\* published it: the tail cursor of the side has not reached the claim of u.
EarlierClaimants(u) ==
    LET side == IF u \in Producers THEN Claiming ELSE Draining
        tail == IF u \in Producers THEN ring.producer.tail ELSE ring.consumer.tail
    IN  {v \in side \ {u} :
            U32ToNat(U32Sub(rloc[v].head, tail)) < U32ToNat(U32Sub(rloc[u].head, tail))}

-----------------------------------------------------------------------------
(* Claims about the peer address, the target tags and the packet lengths.  *)

\* C31: the peer address changes only in a step in which the decrypt worker
\* accepts a packet (SPI, anti-replay window, AEAD and trailer all passed)
\* and hands it on toward the clear queue; a packet that ends up dropped
\* leaves it as it was.
C31_PeerOnlyOnForward ==
    [][peer' # peer => rxlast'.via # "drop"]_vars

\* The target tags of the packets waiting in a queue.
QueuedTargets(r) == {RingContents(r)[i].target : i \in DOMAIN RingContents(r)}

\* C32: every packet in a worker's input queue carries that worker's target
\* tag (encrypt queue ENCRYPT, crypto queue CRYPTO, decrypt queue DECRYPT,
\* clear queue CLEAR), and no worker has died of the target PRECOND at the
\* top of its packet function.
C32_TargetTags ==
    /\ QueuedTargets(wq.encrypt) \subseteq {SIGNSKY_PROC_ENCRYPT}
    /\ QueuedTargets(wq.crypto) \subseteq {SIGNSKY_PROC_CRYPTO}
    /\ QueuedTargets(wq.decrypt) \subseteq {SIGNSKY_PROC_DECRYPT}
    /\ QueuedTargets(clear) \subseteq {SIGNSKY_PROC_CLEAR}
    /\ \A w \in PathWorkers : died[w] # "precondition failed"

\* C33: for every length the keyed encrypt worker is handed (tun.n, as the
\* clear worker read and queued it), encrypt_packet_process either drops the
\* packet, and then the length plus the overhead exceeds the buffer, or hands
\* it on with its length increased by exactly the overhead of 34 bytes; the
\* worker never aborts.
C33_EncryptLengths ==
    flight.stage # "none" =>
        /\ Alive("encrypt")
        /\ flight.stage \in {"crypto_queue", "released"}
        /\ flight.stage = "crypto_queue" =>
              /\ tun.n + EspOverhead <= SIGNSKY_PACKET_MAX_LEN
              /\ flight.pkt.length = tun.n + EspOverhead
        /\ flight.stage = "released" => tun.n + EspOverhead > SIGNSKY_PACKET_MAX_LEN

\* The buffer in flight was released by the clear worker: it never got a
\* target tag.
ClearDropped == flight.stage = "released" /\ flight.pkt.target = FreshPacket.target

\* C34: the clear worker drops a read of tun.n bytes exactly when tun.n is
\* below the minimum length of 12; a read of 12 bytes or more sits in the
\* encrypt queue tagged ENCRYPT with its length.
C34_ClearMinLen ==
    /\ ClearDropped => tun.n < SIGNSKY_PACKET_MIN_LEN
    /\ flight.stage = "encrypt_queue" =>
          /\ tun.n >= SIGNSKY_PACKET_MIN_LEN
          /\ flight.pkt.target = SIGNSKY_PROC_ENCRYPT
          /\ flight.pkt.length = tun.n

-----------------------------------------------------------------------------
(* The key hand-off with the three workers kept running.                   *)

\* The steps of keying_install; the arrival of a request is not one of them.
KeyingStep ==
    \/ KeyingInstallEnter \/ KeyingWait \/ KeyingCasGenerating
    \/ KeyingCopy \/ KeyingCasPending

\* encrypt_install_pending, called on every turn of the encrypt worker's loop.
EncryptStep ==
    \/ EncryptInstallRead \/ EncryptCasInstalling
    \/ EncryptInstallBody \/ EncryptCasEmpty

\* decrypt_keys_install at the top of the decrypt worker's loop and at the
\* top of decrypt_packet_process.
DecryptInstallStep ==
    \/ DecryptLoopInstall \/ DecryptPacketInstall \/ DecryptCasInstalling
    \/ DecryptInstallBody \/ DecryptCasEmpty

\* The system after the decrypt worker dropped one datagram for want of a key.
InitKey ==
    /\ RingIdle /\ ExtIdle
    /\ key = [tx |-> NoKey, rx |-> NoKey]
    /\ kpc = "poll" /\ kreq = NoRequest /\ nreq = 0
    /\ epc = "loop" /\ estate = NoSA
    /\ dpc = "loop" /\ dloc = NoDloc
    /\ dstate = [slot_1 |-> NoSA, slot_2 |-> NoSA]
    /\ ciphers = [encrypt |-> <<>>, decrypt |-> <<>>]
    /\ arwin = NoArwin
    /\ peer = <<0, 0>>
    /\ rxstat = [spi |-> U32Zero, pkt |-> 0, bytes |-> 0]
    /\ clear = RingInitValue(ClearElm)
    /\ npkt = MaxPkts - 1
    /\ died = [w \in Workers |-> "none"]
    /\ accepted = <<>>
    /\ rxlast = [NoLast EXCEPT
                   !.pkt = SealedPacket(SpiA, Secret(1), 1, U32OfNat(1), 0,
                                        IPPROTO_IP, FullLen, <<1, 1>>),
                   !.via = "drop"]

\* The three workers keep running.  The last conjunct is weak fairness of
\* DecryptProcess, which is enabled exactly while the worker stands before
\* decrypt_packet_process with a datagram in hand: it does not stay there.
FairKey ==
    /\ InitKey
    /\ [][Next]_vars
    /\ WF_vars(KeyingStep) /\ WF_vars(EncryptStep) /\ WF_vars(DecryptInstallStep)
    /\ []<>~(Alive("decrypt") /\ dpc = "process")

\* The request in hand is well-formed: both SPIs are non-zero.
WellFormed(req) == req.tx_spi # U32Zero /\ req.rx_spi # U32Zero

\* C35: with the three workers kept running, every well-formed request the
\* keying worker has received is published into the TX slot and then into
\* the RX slot and the keying worker returns to its socket; every slot that
\* is not EMPTY becomes EMPTY again, its key installed; and keying's wait for
\* an EMPTY slot ends, also for a request that follows the first at once.
C35_HandOffCompletes ==
    /\ \A n \in 1..MaxRequests :
          (nreq = n /\ kpc = "enter" /\ kreq.slot = "tx" /\ WellFormed(kreq))
              ~> (nreq = n /\ kpc = "poll" /\
                  Published("tx") = n /\ Published("rx") = n)
    /\ \A s \in KeySlots :
          (key[s].state # SIGNSKY_KEY_EMPTY)
              ~> (key[s].state = SIGNSKY_KEY_EMPTY /\ Installs(s) = Published(s))
    /\ (kpc = "wait") ~> (kpc = "gen")

\* The second request stands at its wait for the TX slot, which still holds
\* the key of the first, not yet installed.
C35_Witness ==
    /\ nreq = 2 /\ kpc = "wait" /\ kreq.slot = "tx"
    /\ key.tx.state = SIGNSKY_KEY_PENDING
    /\ Installs("tx") = 0

-----------------------------------------------------------------------------
(* Claims about the signal cell, the TX install and the cipher contexts.   *)

\* C36: the signal cell loses no signal: whenever signsky_last_signal resets
\* sig_recv to -1 in a process that goes on running, the value it wipes is
\* the one it has just read and returns, in the supervisor and in every
\* worker.
C36_NoSignalLost ==
    [][/\ (spc = "reset" /\ sigrecv[Parent] # NoSignal /\ sigrecv'[Parent] = NoSignal)
            => ssig = sigrecv[Parent]
       /\ \A w \in Workers :
            (wpc[w] = "reset" /\ wpc'[w] # "exited" /\
             sigrecv[w] # NoSignal /\ sigrecv'[w] = NoSignal)
                => wsig[w] = sigrecv[w]]_vars

-----------------------------------------------------------------------------
(* src/src/encrypt.c: the encrypt worker with keys arriving while it has   *)
(* packets to process.  encrypt_install_pending runs on every turn of the  *)
(* loop and at the head of encrypt_packet_process, with a packet in hand.  *)

MaxTxPkts == 3

\* A length that is shipped, one that is released for want of room and one
\* that fails the PRECOND of signsky_packet_data.
TxLens ==
    {64, SIGNSKY_PACKET_DATA_LEN - EspOverhead + 1, SIGNSKY_PACKET_DATA_LEN}

\* The decrypt worker has taken its last datagram; it still installs keys.
InitTx ==
    /\ RingIdle /\ ExtIdle
    /\ key = [tx |-> NoKey, rx |-> NoKey]
    /\ kpc = "poll" /\ kreq = NoRequest /\ nreq = 0
    /\ epc = "loop" /\ estate = NoSA
    /\ dpc = "loop" /\ dloc = NoDloc
    /\ dstate = [slot_1 |-> NoSA, slot_2 |-> NoSA]
    /\ ciphers = [encrypt |-> <<>>, decrypt |-> <<>>]
    /\ arwin = NoArwin
    /\ peer = <<0, 0>>
    /\ rxstat = [spi |-> U32Zero, pkt |-> 0, bytes |-> 0]
    /\ clear = RingInitValue(ClearElm)
    /\ npkt = MaxPkts
    /\ died = [w \in Workers |-> "none"]
    /\ accepted = <<>>
    /\ rxlast = NoLast

\* pkt = signsky_ring_dequeue(io->encrypt): a packet as the clear worker
\* queued it.
TxDequeue ==
    /\ Alive("encrypt") /\ epc = "loop"
    /\ held.encrypt = NoPacket
    /\ ntun < MaxTxPkts
    /\ ntun' = ntun + 1
    /\ \E n \in TxLens :
         /\ clear_recv_one(FreshPacket, n, 1).act = "queue"
         /\ held' = [held EXCEPT !.encrypt = TunnelPacket(n, 1)]
    /\ UNCHANGED <<endian, tun, flight, pool, wq, nnet, txlast, qres, sidevars>>
    /\ UNCHANGED <<key, kpc, kreq, nreq, epc, estate, ciphers, died>>
    /\ UNCHANGED rxvars
    /\ UNCHANGED ringvars

\* encrypt_packet_process(pkt) once its encrypt_install_pending has returned:
\* the TX slot was not PENDING, or the key has been installed.  txlog records
\* every packet that goes to the crypto worker, with the number of installs
\* so far and the cipher context that sealed it.
TxProcess ==
    /\ Alive("encrypt") /\ epc = "loop"
    /\ held.encrypt # NoPacket
    /\ ~InstallSeesPending(key.tx.state)
    /\ LET r == encrypt_packet_process(held.encrypt, estate, ciphers.encrypt, endian)
       IN  /\ estate' = r.st
           /\ txlast' = [act |-> r.act, pkt |-> held.encrypt, st |-> estate]
           /\ IF r.act = "fatal"
                THEN /\ Fatal("encrypt", "precondition failed")
                     /\ flight' = [stage |-> "aborted", pkt |-> r.pkt]
                     /\ UNCHANGED <<held, txlog>>
              ELSE IF r.act = "release"
                THEN /\ flight' = [stage |-> "released", pkt |-> r.pkt]
                     /\ held' = [held EXCEPT !.encrypt = NoPacket]
                     /\ UNCHANGED <<txlog, died>>
              ELSE /\ flight' = [stage |-> "crypto_queue", pkt |-> r.pkt]
                   /\ held' = [held EXCEPT !.encrypt = NoPacket]
                   /\ txlog' = Append(txlog,
                                 [inst |-> Len(ciphers.encrypt),
                                  ctx |-> estate.cipher,
                                  cipher |-> ciphers.encrypt[estate.cipher],
                                  pkt |-> r.pkt])
                   /\ UNCHANGED died
    /\ UNCHANGED <<endian, tun, pool, wq, ntun, nnet, qres>>
    /\ UNCHANGED <<peervars, supvars, txpns, kgot, wtest, dropped, inq>>
    /\ UNCHANGED <<key, kpc, kreq, nreq, epc, ciphers>>
    /\ UNCHANGED rxvars
    /\ UNCHANGED ringvars

NextTx ==
    \/ KeyingRecv
    \/ KeyingInstallEnter
    \/ KeyingWait
    \/ KeyingCasGenerating
    \/ KeyingCopy
    \/ KeyingCasPending
    \/ EncryptInstallRead
    \/ EncryptCasInstalling
    \/ EncryptInstallBody
    \/ EncryptCasEmpty
    \/ DecryptLoopInstall
    \/ DecryptCasInstalling
    \/ DecryptInstallBody
    \/ DecryptCasEmpty
    \/ TxDequeue
    \/ TxProcess

SpecTx == InitTx /\ [][NextTx]_vars

\* Packets among the first i of txlog that were sent since the install that
\* packet i was sent under.
TxSince(i) == Cardinality({j \in 1..i : txlog[j].inst = txlog[i].inst})

\* A packet leaves encrypt_packet_process in this step.
TxEmits == Len(txlog') = Len(txlog) + 1

\* encrypt_install_pending runs its body in this step.
TxInstalls == epc = "body" /\ epc' = "done"

\* C37: the TX install is atomic with respect to packet processing.  Every
\* packet sent was sealed by the live cipher context of the latest install,
\* carries the SPI of the worker's state and the key of that context, and
\* packets of one install agree on both; the packets sent under one install
\* are numbered 1, 2, ... from the install on; an install takes SPI and key
\* of the TX slot, sets the packet number to 1, destroys the context in use
\* and sends nothing; SPI and context of the worker change at an install
\* only; all contexts but the latest are destroyed, each once.
C37_TxInstallAtomic ==
    /\ [](\A i \in DOMAIN txlog :
            /\ txlog[i].ctx = txlog[i].inst
            /\ txlog[i].cipher.live
            /\ txlog[i].pkt.seal.key = txlog[i].cipher.key
            /\ txlog[i].pkt.pn = Host64Bytes(endian, U64OfNat(TxSince(i)))
            /\ \A j \in DOMAIN txlog :
                 txlog[j].inst = txlog[i].inst =>
                    /\ txlog[j].pkt.spi = txlog[i].pkt.spi
                    /\ txlog[j].pkt.seal.key = txlog[i].pkt.seal.key)
    /\ [](\A k \in DOMAIN ciphers.encrypt :
            /\ ciphers.encrypt[k].live <=> k = estate.cipher
            /\ ciphers.encrypt[k].frees = (IF k = estate.cipher THEN 0 ELSE 1))
    /\ [][/\ TxEmits =>
               /\ epc = "loop" /\ epc' = "loop"
               /\ txlog'[Len(txlog')].pkt.spi = Host32Bytes(endian, estate.spi)
               /\ txlog'[Len(txlog')].ctx = estate.cipher
               /\ estate' = [estate EXCEPT !.seqnr = U64Add(@, U64One)]
          /\ TxInstalls =>
               /\ estate'.spi = key.tx.spi
               /\ estate'.seqnr = U64One
               /\ estate'.cipher = Len(ciphers.encrypt) + 1
               /\ ciphers'.encrypt[estate'.cipher].key = key.tx.key
               /\ UNCHANGED <<txlog, held, flight>>
          /\ (estate'.spi # estate.spi \/ estate'.cipher # estate.cipher) =>
               TxInstalls]_vars

\* Two packets went out under the first install and one under the second,
\* which brought another SPI and another key.
C37_Witness ==
    /\ Len(txlog) = 3
    /\ txlog[1].inst = 1 /\ txlog[2].inst = 1 /\ txlog[3].inst = 2
    /\ txlog[3].pkt.pn = Host64Bytes(endian, U64One)
    /\ txlog[3].pkt.spi # txlog[2].pkt.spi
    /\ txlog[3].pkt.seal.key # txlog[2].pkt.seal.key
    /\ ~ciphers.encrypt[1].live

-----------------------------------------------------------------------------
(* src/src/decrypt.c: the cipher contexts of the decrypt worker over more  *)
(* installs than one run from the start takes in: the decrypt worker has   *)
(* dropped one datagram for want of a key, and either no request has come  *)
(* yet or a first request (SPI A, first secret) has been served since.     *)

\* The system once a first request has been published and installed; nreq
\* counts the requests that follow.
FirstKeyServed ==
    /\ key = [tx |-> NoKey, rx |-> NoKey]
    /\ kpc = "poll" /\ kreq = NoRequest /\ nreq = 0
    /\ epc = "loop" /\ estate = TxSA(1)
    /\ dpc = "loop" /\ dloc = NoDloc
    /\ dstate = [slot_1 |-> RxSA, slot_2 |-> NoSA]
    /\ ciphers = [encrypt |-> <<SharedCipher>>, decrypt |-> <<SharedCipher>>]
    /\ arwin = NoArwin
    /\ peer = <<0, 0>>
    /\ rxstat = [spi |-> SpiA, pkt |-> 0, bytes |-> 0]
    /\ clear = RingInitValue(ClearElm)
    /\ npkt = MaxPkts - 1
    /\ died = [w \in Workers |-> "none"]
    /\ accepted = <<>>
    /\ rxlast = [NoLast EXCEPT
                   !.pkt = SealedPacket(SpiA, Secret(1), 1, U32OfNat(1), 0,
                                        IPPROTO_IP, FullLen, <<1, 1>>),
                   !.via = "drop"]

InitRx == InitKey \/ (FirstKeyServed /\ RingIdle /\ ExtIdle)

SpecRx == InitRx /\ [][Next]_vars

\* The cipher contexts that the SAs of the decrypt worker point to.
RxHeld == {dstate[s].cipher : s \in {"slot_1", "slot_2"}} \ {NULL}

\* signsky_cipher_cleanup is called in this step, by signsky_key_install for
\* the context of the SA it fills or by the promotion for the primary's.
RxDestroys(id) ==
    \/ dpc = "body" /\ dpc' = "done" /\ id # NULL /\ dstate[dloc.sa].cipher = id
    \/ /\ dpc = "process" /\ dstate.slot_2.cipher # NULL
       /\ dstate'.slot_2.cipher = NULL /\ dstate.slot_1.cipher = id

\* C38: the life of the cipher contexts of the decrypt worker.  A context is
\* live exactly while an SA points to it, the two SAs never point to the
\* same one, and a context that no SA points to has been destroyed once; a
\* context is destroyed in the step that replaces it and in no other;
\* signsky_cipher_cleanup is never handed NULL; and a packet is only ever
\* decrypted with a live context.
C38_DecryptCipherLifecycle ==
    /\ [](/\ \A k \in DOMAIN ciphers.decrypt :
               /\ ciphers.decrypt[k].live <=> k \in RxHeld
               /\ ciphers.decrypt[k].frees = (IF k \in RxHeld THEN 0 ELSE 1)
          /\ RxHeld \subseteq DOMAIN ciphers.decrypt
          /\ dstate.slot_1.cipher # NULL => dstate.slot_1.cipher # dstate.slot_2.cipher)
    /\ [][/\ \A k \in DOMAIN ciphers.decrypt :
               ciphers'.decrypt[k].frees # ciphers.decrypt[k].frees <=> RxDestroys(k)
          /\ ~RxDestroys(NULL)
          /\ (dpc = "process" /\ rxlast'.via \in {"slot_1", "slot_2"}) =>
               ciphers.decrypt[dstate[rxlast'.via].cipher].live]_vars

\* A key was installed as primary, a second as pending, a third arrived and
\* replaced the pending one, and that one was promoted by a packet: two
\* contexts are destroyed, each once, and the third is the primary's.
C38_Witness ==
    /\ Len(ciphers.decrypt) = 3
    /\ dstate.slot_1.cipher = 3 /\ dstate.slot_2.cipher = NULL
    /\ ciphers.decrypt[1].frees = 1 /\ ciphers.decrypt[2].frees = 1
    /\ ciphers.decrypt[3].live
    /\ rxlast.via = "slot_2"

-----------------------------------------------------------------------------
(* src/src/keying.c: keying_handle_request with datagrams of any length on *)
(* the keying socket.                                                      *)

\* sizeof(struct request): tx_spi, rx_spi and ss, packed.
RequestSize == 4 + 4 + SIGNSKY_KEY_LENGTH

\* The lengths of the datagrams sent to the socket: empty, one byte short,
\* exact, one byte long.
DgramLens == {0, RequestSize - 1, RequestSize, RequestSize + 1}

\* recvfrom(fd, &req, sizeof(req), 0, ...) on the datagram socket: the bytes
\* that fit are stored and counted, the rest of the datagram is discarded.
recvfrom(len, size) == IF len < size THEN len ELSE size

\* One call of keying_handle_request up to its calls of keying_install.
KeyingRecvLen ==
    /\ Alive("keying") /\ kpc = "poll"
    /\ nreq < MaxRequests
    /\ nreq' = nreq + 1
    /\ \E len \in DgramLens, req \in Requests :
         LET ret == recvfrom(len, RequestSize)
         IN  /\ kgot' = [len |-> len, ret |-> ret]
             /\ IF ret = 0
                  THEN /\ Fatal("keying", "eof on keying socket")
                       /\ UNCHANGED <<kreq, kpc>>
                ELSE IF ret # RequestSize
                  THEN UNCHANGED <<kreq, kpc, died>>
                ELSE /\ kreq' = [tx_spi |-> req.tx_spi, rx_spi |-> req.rx_spi,
                                 ss |-> req.ss, slot |-> "tx"]
                     /\ kpc' = "enter"
                     /\ UNCHANGED died
    /\ UNCHANGED <<key, epc, estate, ciphers>>
    /\ UNCHANGED rxvars
    /\ UNCHANGED <<endian, tun, flight, pathvars, peervars, supvars>>
    /\ UNCHANGED <<txpns, txlog, wtest, dropped, inq>>
    /\ UNCHANGED ringvars

NextKeyLen ==
    \/ KeyingRecvLen
    \/ KeyingInstallEnter
    \/ KeyingWait
    \/ KeyingCasGenerating
    \/ KeyingCopy
    \/ KeyingCasPending
    \/ EncryptInstallRead
    \/ EncryptCasInstalling
    \/ EncryptInstallBody
    \/ EncryptCasEmpty
    \/ DecryptLoopInstall
    \/ DecryptCasInstalling
    \/ DecryptInstallBody
    \/ DecryptCasEmpty

SpecKeyLen == InitTx /\ [][NextKeyLen]_vars

\* C39: a datagram on the keying socket whose length is not that of a
\* request is ignored: the step that receives it leaves state, SPI and key
\* bytes of both slots as they are, starts no keying_install, and leaves the
\* keying worker alive at its poll, ready for the next request.
C39_MalformedLengthIgnored ==
    [][(nreq' = nreq + 1 /\ kgot'.len # RequestSize) =>
          /\ key' = key
          /\ kpc' = "poll"
          /\ Alive("keying")']_vars

-----------------------------------------------------------------------------
(* Claims about the observed RX SPI, signsky->rx.spi.                      *)

\* The first signsky_key_install into the primary SA has returned.
FirstInstalled ==
    dstate.slot_1.cipher # NULL /\ ~(dpc = "done" /\ dloc.sa = "slot_1")

\* decrypt_packet_process promotes the pending SA in this step.
RxPromotes ==
    /\ dpc = "process" /\ dpc' = "loop"
    /\ dstate.slot_2.cipher # NULL /\ dstate'.slot_2.cipher = NULL

\* C40: once the first install into the primary SA has returned,
\* signsky->rx.spi is the SPI of the primary SA in every state; it is stored
\* when that install returns and at every promotion, where it takes the SPI
\* of the pending SA, and an install into the pending SA leaves it alone.
C40_RxSpiIsPrimary ==
    /\ [](FirstInstalled => rxstat.spi = dstate.slot_1.spi)
    /\ [][/\ rxstat'.spi # rxstat.spi =>
               \/ dpc = "done" /\ dloc.sa = "slot_1"
               \/ RxPromotes
          /\ (dpc = "done" /\ dpc' # "done" /\ dloc.sa = "slot_1") =>
               rxstat'.spi = dstate.slot_1.spi
          /\ RxPromotes =>
               rxstat'.spi = dstate.slot_2.spi /\ dstate'.slot_1.spi = dstate.slot_2.spi
          /\ (dpc \in {"cas", "body", "done"} /\ dloc.sa = "slot_2") =>
               rxstat'.spi = rxstat.spi]_vars

\* The pending SA was promoted and another key, with another SPI, has been
\* installed as pending since: signsky->rx.spi is the primary's.
C40_Witness ==
    /\ rxlast.via = "slot_2"
    /\ dstate.slot_1.cipher # NULL /\ dstate.slot_2.cipher # NULL
    /\ dpc = "loop"
    /\ rxstat.spi = dstate.slot_1.spi
    /\ dstate.slot_2.spi # dstate.slot_1.spi

====
